---- MODULE Spec2Model ----
(***************************************************************************)
(* Drift analysis, serving and data cleaning of the energy-prediction      *)
(* pipeline.                                                               *)
(*                                                                         *)
(*   src/src/drift_analysis.py          main and the functions it calls    *)
(*   src/src/drift_analysis_nannyml.py  prepare_data_for_nannyml,          *)
(*                                      analyze_with_nannyml,              *)
(*                                      perform_statistical_drift_analysis,*)
(*                                      analyze_model_performance          *)
(*   src/src/api/main.py                the startup handler, /health,      *)
(*                                      /models, /predict_model1..3        *)
(*   src/src/data_cleaning.py           convert_date_column,               *)
(*                                      handle_outliers, time_based_split, *)
(*                                      create_drift_data, save_splits     *)
(*   src/src/promote_champion_model.py  promote_to_production              *)
(*   src/src/h2o_automl.py              the selection loop of main         *)
(*                                                                         *)
(* Numbers.  The scripts compute in IEEE doubles.  A number is modelled as *)
(* a fraction <<n, d>> in lowest terms with d > 0, computed exactly; the   *)
(* non-finite doubles are the fractions with d = 0: NaN = <<0, 0>> and     *)
(* +-inf = <<+-1, 0>>.  Only the square root is rounded (see RSqrt).       *)
(***************************************************************************)
EXTENDS Integers, Sequences, FiniteSets, TLC

\* ------------------------------------------------------------- numbers

NaN == <<0, 0>>
Zero == <<0, 1>>

IAbs(i) == IF i < 0 THEN -i ELSE i

Sign(i) == IF i < 0 THEN -1 ELSE IF i > 0 THEN 1 ELSE 0

RECURSIVE Gcd(_, _)
Gcd(a, b) == IF b = 0 THEN a ELSE Gcd(b, a % b)

\* The fraction n/d in lowest terms, d > 0; n/0 is +-inf, 0/0 is NaN.
Norm(n, d) ==
    IF d = 0 THEN <<Sign(n), 0>>
    ELSE LET g == Gcd(IAbs(n), IAbs(d))
             s == IF d < 0 THEN -1 ELSE 1
         IN  <<(s * n) \div g, (s * d) \div g>>

Rat(i) == <<i, 1>>

IsNaN(x) == x = NaN

IsFinite(x) == x[2] # 0

RAdd(x, y) == Norm(x[1] * y[2] + y[1] * x[2], x[2] * y[2])

RSub(x, y) == Norm(x[1] * y[2] - y[1] * x[2], x[2] * y[2])

RMul(x, y) == Norm(x[1] * y[1], x[2] * y[2])

\* 1/x: 1/0 is inf, 1/inf is 0, 1/NaN is NaN.
RInv(x) == IF x[1] < 0 THEN <<-x[2], -x[1]>> ELSE <<x[2], x[1]>>

\* numpy float64 division: x/0 is +-inf or NaN (a warning, no exception).
RDiv(x, y) == RMul(x, RInv(y))

RAbs(x) == <<IAbs(x[1]), x[2]>>

\* Python's x > y on doubles: False when either side is NaN.
RGt(x, y) == ~IsNaN(x) /\ ~IsNaN(y) /\ x[1] * y[2] > y[1] * x[2]

\* Python's x >= y on doubles: False when either side is NaN.
RGe(x, y) == ~IsNaN(x) /\ ~IsNaN(y) /\ x[1] * y[2] >= y[1] * x[2]

\* Python's x != y on doubles: True when either side is NaN.
RNe(x, y) == IsNaN(x) \/ IsNaN(y) \/ x # y

RECURSIVE ISqrtBetween(_, _, _)
ISqrtBetween(k, lo, hi) ==
    IF hi - lo <= 1 THEN lo
    ELSE LET mid == (lo + hi) \div 2
         IN  IF mid * mid <= k THEN ISqrtBetween(k, mid, hi)
             ELSE ISqrtBetween(k, lo, mid)

\* The integer part of the square root of k >= 0.
ISqrt(k) == ISqrtBetween(k, 0, IF k < 46340 THEN k + 1 ELSE 46340)

\* The square root inside Series.std(): that of n/d is sqrt(n*d)/d, here
\* rounded down to a multiple of 1/(100 d) as the double is rounded to 53
\* bits; it is exact on 0 and on the fractions whose n*d is a perfect square.
RSqrt(x) ==
    IF IsNaN(x) \/ x[1] < 0 THEN NaN
    ELSE IF x[2] = 0 THEN x
    ELSE Norm(ISqrt(x[1] * x[2] * 100 * 100), x[2] * 100)

\* ------------------------------------------------------------- columns

Range(s) == {s[i] : i \in DOMAIN s}

BoundedSeq(S, n) == UNION {[1..k -> S] : k \in 0..n}

\* A data frame is [columns: the column names in order, rows: the rows in
\* order], a row being a function from the column names to cells.  A numeric
\* cell is a number; NaN is the missing value.
HasColumn(df, c) == c \in Range(df.columns)

\* df[c]: the cells of column c in row order.
Column(df, c) == [i \in 1..Len(df.rows) |-> df.rows[i][c]]

NotNa(col) == SelectSeq(col, LAMBDA x : ~IsNaN(x))

RECURSIVE Sum(_)
Sum(col) == IF col = <<>> THEN Zero ELSE RAdd(Head(col), Sum(Tail(col)))

\* pandas Series.mean(): skips the missing values; NaN when nothing is left.
Mean(col) ==
    LET xs == NotNa(col)
    IN  RDiv(Sum(xs), Rat(Len(xs)))

RECURSIVE SumSqDev(_, _)
SumSqDev(col, m) ==
    IF col = <<>> THEN Zero
    ELSE LET dev == RSub(Head(col), m)
         IN  RAdd(RMul(dev, dev), SumSqDev(Tail(col), m))

\* pandas Series.std(): the sample standard deviation (ddof = 1) of the values
\* that are not missing; NaN when fewer than two are left.
Std(col) ==
    LET xs == NotNa(col)
    IN  IF Len(xs) <= 1 THEN NaN
        ELSE RSqrt(RDiv(SumSqDev(xs, Mean(xs)), Rat(Len(xs) - 1)))

\* --------------------------------------------------------- the datasets

MaxRows == 2

\* The columns of data/cleaned/test.csv that the model keeps: the timestamp,
\* the target, two features and one of the noise variables.
CsvColumns == <<"date", "Appliances", "T1", "RH_1", "rv1">>

Dates ==
    <<"2016-05-01 00:00:00", "2016-05-01 00:10:00", "2016-05-01 00:20:00",
      "2016-05-01 00:30:00", "2016-05-20 00:00:00", "2016-05-20 00:10:00",
      "2016-05-20 00:20:00", "2016-05-20 00:30:00">>

\* The numeric cells a row is drawn from.
RowSamples ==
    { [Appliances |-> 50, T1 |-> 19, RH_1 |-> -10, rv1 |-> 7],
      [Appliances |-> 60, T1 |-> 21, RH_1 |-> 5, rv1 |-> 7],
      [Appliances |-> 50, T1 |-> 10, RH_1 |-> 5, rv1 |-> 3],
      [Appliances |-> 90, T1 |-> 11, RH_1 |-> 0, rv1 |-> 3] }

\* pd.read_csv: the frame of a CSV file with the header `columns` and one
\* line per sample, the i-th dated Dates[i].
ReadCsv(columns, samples) ==
    [columns |-> columns,
     rows |-> [i \in 1..Len(samples) |->
                 [c \in Range(columns) |->
                    IF c = "date" THEN Dates[i]
                    ELSE Rat(samples[i][c])]]]

Without(columns, c) == SelectSeq(columns, LAMBDA x : x # c)

VARIABLES
    reference_df,   \* data/cleaned/test.csv as loaded
    production_df,  \* data/drift/production_data.csv as loaded
    running,        \* the scripts that are run on the two files
    simple_pc,      \* drift_analysis.main: the call it is at
    simple_returned,\* drift_analysis.main: the calls that have returned
    plot_path,      \* create_visualizations' return value
    report,         \* what generate_html_report wrote, <<>> before it has
    models,         \* load_models' dict: the names loaded, in insertion order
    load_calls,     \* the load_model calls load_models made, with their outcome
    drift_df,       \* analyze_data_drift's return value: the records, in order
    drift_locals,   \* the local variables of each of its finished iterations
    simple_error,   \* the exception drift_analysis.main died of
    simple_stats,   \* the number of mean()/std() calls analyze_data_drift made
    pred_idx,       \* analyze_prediction_drift: the position in models
    pred_results,   \* analyze_prediction_drift: results
    pred_log,       \* the models whose [ERROR] line was printed, with the step
    nanny_pc,       \* drift_analysis_nannyml.main: the call it is at
    nanny_path,     \* analyze_with_nannyml: "nannyml" or "fallback" once taken
    combined_df,    \* prepare_data_for_nannyml's combined frame
    feature_cols,   \* prepare_data_for_nannyml's feature columns
    stat_df,        \* perform_statistical_drift_analysis's return value
    stat_locals,    \* the local variables of each of its iterations
    nanny_error,    \* the exception drift_analysis_nannyml.main died of
    nanny_stats,    \* the number of mean()/std() calls the fallback made
    perf_idx,       \* analyze_model_performance: the position in its models
    perf_results,   \* analyze_model_performance: results
    perf_log,       \* the models whose [WARNING] line was printed, with the step
    files,          \* the files written so far
    model1,         \* api/main.py: the global model1, None or the model loaded
    model2,         \* api/main.py: the global model2
    model3,         \* api/main.py: the global model3
    api_pc,         \* the API process: "startup", then "serving"
    api_load_calls, \* the load_model calls the startup handler made
    responses,      \* the responses the API has sent, in order
    cleaning_pc,    \* data_cleaning.main: the call it is at
    cleaned_df,     \* data_cleaning.main: df, a sequence of rows
    train_df,       \* time_based_split's first return value
    val_df,         \* time_based_split's second return value
    test_df,        \* time_based_split's third return value
    cleaning_error, \* the exception data_cleaning.main died of
    production_sim_df, \* data_cleaning.main: drift_df, create_drift_data's
                    \* return value
    saved,          \* the CSV files save_splits wrote: path -> rows
    registry,       \* the versions of the champion model: version -> stage
    registry_before,\* the registry when promote_to_production was called
    registry_calls, \* the MlflowClient calls promote_to_production made
    promote_pc,     \* promote_to_production: the call it is at
    latest_versions,\* promote_to_production: latest_versions
    prod_versions,  \* promote_to_production: prod_versions
    promote_out,    \* promote_to_production: its last status line
    promote_error,  \* the exception promote_to_production died of
    lb_df,          \* h2o_automl.main: the model_id column of the leaderboard
    automl_pc,      \* h2o_automl.main: the statement it is at
    automl_i,       \* h2o_automl.main: the number of iterations started
    examined,       \* the positions at which lb_df.iloc was read, in order
    model_types     \* h2o_automl.main: model_types

dataVars == <<reference_df, production_df, running>>
featureVars == <<drift_df, drift_locals, simple_stats>>
predVars == <<pred_idx, pred_results, pred_log>>
reportVars == <<plot_path, report>>
simpleVars ==
    <<simple_pc, simple_returned, models, load_calls, simple_error,
      featureVars, predVars, reportVars>>
prepVars == <<combined_df, feature_cols>>
statVars == <<nanny_path, stat_df, stat_locals, nanny_stats>>
perfVars == <<perf_idx, perf_results, perf_log>>
nannyVars == <<nanny_pc, nanny_error, prepVars, statVars, perfVars>>
driftVars == <<dataVars, simpleVars, nannyVars, files>>
apiVars == <<model1, model2, model3, api_pc, api_load_calls, responses>>
simVars == <<production_sim_df, saved>>
\* The variables of the programs other than the two drift scripts.
cleaningVars ==
    <<cleaning_pc, cleaned_df, train_df, val_df, test_df, cleaning_error,
      production_sim_df, saved>>
promoteVars ==
    <<registry, registry_before, registry_calls, promote_pc, latest_versions,
      prod_versions, promote_out, promote_error>>
\* The variables of the scripts that are run once, by hand.
automlVars == <<lb_df, automl_pc, automl_i, examined, model_types>>
scriptVars == <<promoteVars, automlVars>>
otherVars == <<apiVars, cleaningVars, scriptVars>>
vars == <<driftVars, otherVars>>

NoError == [type |-> "", key |-> ""]

KeyError(k) == [type |-> "KeyError", key |-> k]

\* What pd.read_csv raises when the file is not there.
FileNotFoundError(path) == [type |-> "FileNotFoundError", key |-> path]

\* What setup_mlflow() raises when the tracking server cannot be used.
MlflowError == [type |-> "MlflowException", key |-> "setup_mlflow"]

EmptyFrame == [columns |-> <<>>, rows |-> <<>>]

\* ------------------------------------------------- the feature-drift loop

exclude_cols == {"date", "rv1", "rv2", "Appliances"}

\* The same line with the target left out of exclude_cols.
FeaturesWithTarget(df) ==
    SelectSeq(df.columns, LAMBDA c : c \notin exclude_cols \ {"Appliances"})

\* [col for col in reference_df.columns if col not in exclude_cols]
Features(df) == SelectSeq(df.columns, LAMBDA c : c \notin exclude_cols)

\* The same line without its zero guard.
MeanChangeUnguarded(prod_mean, ref_mean) ==
    RAbs(RMul(RDiv(RSub(prod_mean, ref_mean), ref_mean), Rat(100)))

\* The same line with the absolute value taken of the difference alone.
MeanChangeAbsDiff(prod_mean, ref_mean) ==
    IF RNe(ref_mean, Zero)
    THEN RMul(RDiv(RAbs(RSub(prod_mean, ref_mean)), ref_mean), Rat(100))
    ELSE Zero

\* abs((prod_mean - ref_mean) / ref_mean * 100) if ref_mean != 0 else 0
MeanChange(prod_mean, ref_mean) ==
    IF RNe(ref_mean, Zero)
    THEN RAbs(RMul(RDiv(RSub(prod_mean, ref_mean), ref_mean), Rat(100)))
    ELSE Zero

\* The same line without its zero guard.
StdChangeUnguarded(prod_std, ref_std) ==
    RAbs(RMul(RDiv(RSub(prod_std, ref_std), ref_std), Rat(100)))

\* abs((prod_std - ref_std) / ref_std * 100) if ref_std != 0 else 0
StdChange(prod_std, ref_std) ==
    IF RNe(ref_std, Zero)
    THEN RAbs(RMul(RDiv(RSub(prod_std, ref_std), ref_std), Rat(100)))
    ELSE Zero

\* The same line with >= for >.
DriftDetectedGe(mean_change, std_change) ==
    RGe(mean_change, Rat(10)) \/ RGe(std_change, Rat(10))

\* mean_change > 10 or std_change > 10
DriftDetected(mean_change, std_change) ==
    RGt(mean_change, Rat(10)) \/ RGt(std_change, Rat(10))

\* One iteration of the loop: the local variables at its end.
FeatureLocals(ref, prod, feature) ==
    LET ref_mean == Mean(Column(ref, feature))
        ref_std == Std(Column(ref, feature))
        prod_mean == Mean(Column(prod, feature))
        prod_std == Std(Column(prod, feature))
        mean_change == MeanChange(prod_mean, ref_mean)
        std_change == StdChange(prod_std, ref_std)
    IN  [feature |-> feature,
         ref_mean |-> ref_mean,
         ref_std |-> ref_std,
         prod_mean |-> prod_mean,
         prod_std |-> prod_std,
         mean_change |-> mean_change,
         std_change |-> std_change,
         drift_detected |-> DriftDetected(mean_change, std_change)]

\* The record the iteration appends to drift_results.
DriftRecord(l) ==
    [feature |-> l.feature,
     ref_mean |-> l.ref_mean,
     prod_mean |-> l.prod_mean,
     mean_change_pct |-> l.mean_change,
     drift_detected |-> l.drift_detected]

\* The first position in `names` of a column that df lacks, 0 if none.
FirstMissing(names, df) ==
    LET bad == {i \in DOMAIN names : ~HasColumn(df, names[i])}
    IN  IF bad = {} THEN 0 ELSE CHOOSE i \in bad : \A j \in bad : i <= j

LoopLocals(ref, prod, names) ==
    [i \in DOMAIN names |-> FeatureLocals(ref, prod, names[i])]

Records(locals) == [i \in DOMAIN locals |-> DriftRecord(locals[i])]

\* ---------------------------------------------------- drift_analysis.py

TEST_PATH == "data/cleaned/test.csv"

PROD_PATH == "data/drift/production_data.csv"

REPORT_PATH == "drift_analysis_report.html"

\* load_data(): reference_df and production_df are what the two pd.read_csv
\* calls return; a file that is not there makes its call raise.
LoadData ==
    /\ "drift_analysis" \in running
    /\ simple_pc = "load_data"
    /\ \/ /\ simple_pc' = "raised"
          /\ \E path \in {TEST_PATH, PROD_PATH} :
                simple_error' = FileNotFoundError(path)
          /\ UNCHANGED simple_returned
       \/ /\ simple_pc' = "load_models"
          /\ simple_returned' = Append(simple_returned, "load_data")
          /\ UNCHANGED simple_error
    /\ UNCHANGED <<otherVars, dataVars, load_calls, models, featureVars,
                   predVars, reportVars, nannyVars, files>>

\* The keys load_models() fills, in the order of its three try blocks.
model_keys == <<"xgboost", "gradient_boosting", "random_forest">>

\* The registered models, in the order both load_models functions load them.
registry_names ==
    <<"XGBoost_Energy_Model", "GradientBoosting_Energy_Model",
      "RandomForest_Energy_Model">>

\* The same calls in one try block for the three: none after the first that
\* raises.
LoadCallsOneTry(served) ==
    LET bad == {i \in DOMAIN registry_names : registry_names[i] \notin served}
        last == IF bad = {} THEN Len(registry_names)
                ELSE CHOOSE i \in bad : \A j \in bad : i <= j
    IN  [i \in 1..last |->
           [name |-> registry_names[i], ok |-> registry_names[i] \in served]]

\* The mlflow.pyfunc.load_model calls made when the registry serves the
\* models of `served`: each is in a try block of its own, whose except
\* clause prints a warning, so that all three are made.
LoadCalls(served) ==
    [i \in DOMAIN registry_names |->
       [name |-> registry_names[i], ok |-> registry_names[i] \in served]]

\* The i-th call was made and returned a model.
LoadedBy(calls, i) == i \in DOMAIN calls /\ calls[i].ok

\* The keys of `keys` whose call returned a model, in order.
LoadedKeys(keys, calls) ==
    LET idx == SelectSeq([i \in DOMAIN keys |-> i],
                         LAMBDA i : LoadedBy(calls, i))
    IN  [j \in DOMAIN idx |-> keys[idx[j]]]

\* load_models(): setup_mlflow() is called outside any try; then the three
\* load_model calls are made and models gets the key of each that returns.
LoadModels ==
    /\ "drift_analysis" \in running
    /\ simple_pc = "load_models"
    /\ \/ /\ simple_pc' = "raised"
          /\ simple_error' = MlflowError
          /\ UNCHANGED <<models, load_calls, simple_returned>>
       \/ \E served \in SUBSET Range(registry_names) :
             /\ load_calls' = LoadCalls(served)
             /\ models' = LoadedKeys(model_keys, LoadCalls(served))
             /\ simple_pc' = "analyze_data_drift"
             /\ simple_returned' = Append(simple_returned, "load_models")
             /\ UNCHANGED simple_error
    /\ UNCHANGED <<otherVars, dataVars, featureVars, predVars, reportVars,
                   nannyVars, files>>

\* analyze_data_drift(reference_df, production_df).  production_df[feature]
\* raises KeyError(feature) when the column is absent, after the two
\* reference statistics of that iteration; an empty drift_results makes a
\* frame without columns, and drift_df['drift_detected'] raises.
AnalyzeDataDrift ==
    /\ "drift_analysis" \in running
    /\ simple_pc = "analyze_data_drift"
    /\ LET features == Features(reference_df)
           k == FirstMissing(features, production_df)
       IN  IF k # 0
           THEN /\ simple_pc' = "raised"
                /\ simple_error' = KeyError(features[k])
                /\ drift_locals' =
                       LoopLocals(reference_df, production_df,
                                  SubSeq(features, 1, k - 1))
                /\ simple_stats' = 4 * (k - 1) + 2
                /\ UNCHANGED <<drift_df, simple_returned>>
           ELSE /\ drift_locals' =
                       LoopLocals(reference_df, production_df, features)
                /\ simple_stats' = 4 * Len(features)
                /\ IF features = <<>>
                   THEN /\ simple_pc' = "raised"
                        /\ simple_error' = KeyError("drift_detected")
                        /\ UNCHANGED <<drift_df, simple_returned>>
                   ELSE /\ simple_pc' = "analyze_prediction_drift"
                        /\ simple_returned' =
                               Append(simple_returned, "analyze_data_drift")
                        /\ drift_df' =
                               Records(LoopLocals(reference_df, production_df,
                                                  features))
                        /\ UNCHANGED simple_error
    /\ UNCHANGED <<otherVars, dataVars, load_calls, models, predVars,
                   reportVars, nannyVars, files>>

\* The metrics sklearn may return for one model on one dataset.
ScoreSamples ==
    { [rmse |-> Zero, mae |-> Zero, r2 |-> Rat(1)],
      [rmse |-> Rat(50), mae |-> Rat(30), r2 |-> <<-1, 2>>],
      [rmse |-> <<105, 2>>, mae |-> Rat(32), r2 |-> <<-47, 50>>] }

\* The same line without its zero guard.
RmseChangeUnguarded(prod_rmse, ref_rmse) ==
    RAbs(RMul(RDiv(RSub(prod_rmse, ref_rmse), ref_rmse), Rat(100)))

\* abs((prod_rmse - ref_rmse) / ref_rmse * 100) if ref_rmse != 0 else 0
RmseChange(prod_rmse, ref_rmse) ==
    IF RNe(ref_rmse, Zero)
    THEN RAbs(RMul(RDiv(RSub(prod_rmse, ref_rmse), ref_rmse), Rat(100)))
    ELSE Zero

\* The calls of the try block that may raise, in order.
predict_steps ==
    <<"predict(X_ref)", "metrics(y_ref)", "predict(X_prod)", "metrics(y_prod)">>

\* analyze_prediction_drift, up to its loop: reference_df[target] and
\* production_df[target] raise KeyError(target) when the column is absent.
AnalyzePredictionDriftBegin ==
    /\ "drift_analysis" \in running
    /\ simple_pc = "analyze_prediction_drift"
    /\ IF ~HasColumn(reference_df, "Appliances")
          \/ ~HasColumn(production_df, "Appliances")
       THEN /\ simple_pc' = "raised"
            /\ simple_error' = KeyError("Appliances")
            /\ UNCHANGED predVars
       ELSE /\ simple_pc' = "prediction_loop"
            /\ pred_idx' = 1
            /\ pred_results' = <<>>
            /\ UNCHANGED <<simple_error, pred_log>>
    /\ UNCHANGED <<otherVars, dataVars, load_calls, simple_returned, models,
                   featureVars, reportVars, nannyVars, files>>

\* The record of a model scored `ref` on the reference set and `prod` on the
\* production set.
PredictionRecord(model_name, ref, prod) ==
    [model |-> model_name,
     ref_rmse |-> ref.rmse,
     prod_rmse |-> prod.rmse,
     rmse_change_pct |-> RmseChange(prod.rmse, ref.rmse),
     ref_mae |-> ref.mae,
     prod_mae |-> prod.mae,
     ref_r2 |-> ref.r2,
     prod_r2 |-> prod.r2]

\* The same iteration without its try: the exception leaves the function.
PredictionRaisesUncaught(step) ==
    /\ simple_pc' = "raised"
    /\ simple_error' = [type |-> "Exception", key |-> step]
    /\ UNCHANGED <<pred_idx, pred_results, pred_log>>

\* The same iteration with the record appended as soon as the reference set
\* is scored and completed later: a failure on the production set leaves it.
PredictionRaisesPartial(step) ==
    /\ pred_log' = Append(pred_log, [model |-> models[pred_idx], step |-> step])
    /\ pred_idx' = pred_idx + 1
    /\ IF step \in {"predict(X_prod)", "metrics(y_prod)"}
       THEN \E ref \in ScoreSamples :
               pred_results' =
                   Append(pred_results,
                          [model |-> models[pred_idx], ref_rmse |-> ref.rmse,
                           ref_mae |-> ref.mae, ref_r2 |-> ref.r2])
       ELSE UNCHANGED pred_results
    /\ UNCHANGED <<simple_pc, simple_error>>

\* One iteration whose try block raises at `step`: the except clause prints
\* the model's name and the loop goes on.
PredictionRaises(step) ==
    /\ pred_log' = Append(pred_log, [model |-> models[pred_idx], step |-> step])
    /\ pred_idx' = pred_idx + 1
    /\ UNCHANGED <<simple_pc, simple_error, pred_results>>

\* One iteration of the loop over models.items().  The sklearn metrics raise
\* on a dataset without rows, so that a model is only scored on two
\* datasets that have rows.
PredictionDriftIteration ==
    /\ "drift_analysis" \in running
    /\ simple_pc = "prediction_loop"
    /\ pred_idx <= Len(models)
    /\ \/ \E step \in Range(predict_steps) : PredictionRaises(step)
       \/ /\ Len(reference_df.rows) > 0
          /\ Len(production_df.rows) > 0
          /\ \E ref \in ScoreSamples, prod \in ScoreSamples :
                pred_results' =
                    Append(pred_results,
                           PredictionRecord(models[pred_idx], ref, prod))
          /\ pred_idx' = pred_idx + 1
          /\ UNCHANGED <<simple_pc, simple_error, pred_log>>
    /\ UNCHANGED <<otherVars, dataVars, load_calls, simple_returned, models,
                   featureVars, reportVars, nannyVars, files>>

\* The loop is over: return pd.DataFrame(results).
AnalyzePredictionDriftReturn ==
    /\ "drift_analysis" \in running
    /\ simple_pc = "prediction_loop"
    /\ pred_idx > Len(models)
    /\ simple_pc' = "create_visualizations"
    /\ simple_returned' = Append(simple_returned, "analyze_prediction_drift")
    /\ UNCHANGED <<otherVars, dataVars, load_calls, models, simple_error,
                   featureVars, predVars, reportVars, nannyVars, files>>

\* Series.value_counts(): the distinct values, each with its count.
ValueCounts(col) ==
    {[value |-> v, count |-> Len(SelectSeq(col, LAMBDA x : x = v))] :
        v \in Range(col)}

\* The labels of the pie of create_visualizations.
pie_labels == <<"No Drift", "Drift Detected">>

\* create_visualizations(drift_df, pred_drift_df): Axes.pie raises ValueError
\* unless it is given as many labels as slices, that is unless some feature
\* is flagged and some is not; otherwise the figure is saved.
CreateVisualizations ==
    /\ "drift_analysis" \in running
    /\ simple_pc = "create_visualizations"
    /\ LET drift_counts ==
               ValueCounts([i \in DOMAIN drift_df |->
                              drift_df[i].drift_detected])
       IN  IF Cardinality(drift_counts) # Len(pie_labels)
           THEN /\ simple_pc' = "raised"
                /\ simple_error' = [type |-> "ValueError", key |-> "pie"]
                /\ UNCHANGED <<simple_returned, plot_path, files>>
           ELSE /\ simple_pc' = "generate_html_report"
                /\ simple_returned' =
                       Append(simple_returned, "create_visualizations")
                /\ plot_path' = "drift_analysis_plots.png"
                /\ files' = files \cup {"drift_analysis_plots.png"}
                /\ UNCHANGED simple_error
    /\ UNCHANGED <<otherVars, dataVars, load_calls, models, featureVars,
                   predVars, report, nannyVars>>

\* f"{x:.1f}": x rounded to tenths, a tie to the even digit; in tenths.
Format1f(x) ==
    LET n == x[1] * 10
        q == n \div x[2]
        r == n % x[2]
    IN  IF 2 * r > x[2] \/ (2 * r = x[2] /\ q % 2 = 1) THEN q + 1 ELSE q

\* The <li> items of the report's section 4.
recommendations ==
    <<"Features with >10% mean change should be investigated",
      "Models with >20% RMSE degradation should be retrained",
      "Consider implementing automated drift monitoring",
      "Schedule regular model retraining based on drift patterns">>

\* html_content: what the f-string interpolates, section by section.
HtmlContent(drift, pred_drift, plot) ==
    LET drifted == Len(SelectSeq(drift, LAMBDA r : r.drift_detected))
    IN  [summary |->
             [drifted |-> drifted,
              features |-> Len(drift),
              percent_tenths |->
                  Format1f(RMul(RDiv(Rat(drifted), Rat(Len(drift))),
                                Rat(100)))],
         data_drift |-> drift,
         prediction_drift |-> pred_drift,
         no_predictions |-> pred_drift = <<>>,
         img |-> plot,
         recommendations |-> recommendations]

\* The same function opening the file before it builds the content, and the
\* building raising: the file is left behind.
GenerateHtmlReportOpensFirst ==
    /\ "drift_analysis" \in running
    /\ simple_pc = "generate_html_report"
    /\ simple_pc' = "raised"
    /\ simple_error' = [type |-> "ZeroDivisionError", key |-> ""]
    /\ files' = files \cup {REPORT_PATH}
    /\ UNCHANGED <<otherVars, dataVars, load_calls, models, featureVars,
                   predVars, plot_path, nannyVars, simple_returned, report>>

\* generate_html_report(drift_df, pred_drift_df, plot_path): the content is
\* built, then open(REPORT_PATH, 'w') raises or the content is written.
GenerateHtmlReport ==
    /\ "drift_analysis" \in running
    /\ simple_pc = "generate_html_report"
    /\ \/ /\ simple_pc' = "raised"
          /\ simple_error' = [type |-> "OSError", key |-> REPORT_PATH]
          /\ UNCHANGED <<simple_returned, report, files>>
       \/ /\ report' = <<HtmlContent(drift_df, pred_results, plot_path)>>
          /\ files' = files \cup {REPORT_PATH}
          /\ simple_pc' = "done"
          /\ simple_returned' = Append(simple_returned, "generate_html_report")
          /\ UNCHANGED simple_error
    /\ UNCHANGED <<otherVars, dataVars, load_calls, models, featureVars,
                   predVars, plot_path, nannyVars>>

\* ------------------------------------------- drift_analysis_nannyml.py

nanny_exclude_cols == {"date", "rv1", "rv2"}

target == "Appliances"

added_cols == <<"identifier", "timestamp", "partition">>

\* pd.to_datetime on a date string: its position on the time axis.
ToDatetime(s) == CHOOSE i \in DOMAIN Dates : Dates[i] = s

\* pd.concat([a, b], ignore_index=True): the columns of a, then those of b
\* that a lacks; the rows of a, then those of b; NaN where a frame lacks a
\* column.
Concat(a, b) ==
    LET columns ==
            a.columns \o SelectSeq(b.columns, LAMBDA c : ~HasColumn(a, c))
        Widen(df, row) ==
            [c \in Range(columns) |-> IF HasColumn(df, c) THEN row[c] ELSE NaN]
    IN  [columns |-> columns,
         rows |-> [i \in 1..Len(a.rows) |-> Widen(a, a.rows[i])]
                  \o [i \in 1..Len(b.rows) |-> Widen(b, b.rows[i])]]

\* The same copy with the identifier set to range(len(df)).
PreparedCountingFromZero(df, first_id, partition) ==
    LET columns ==
            df.columns \o SelectSeq(added_cols, LAMBDA c : ~HasColumn(df, c))
    IN  [columns |-> columns,
         rows |-> [i \in 1..Len(df.rows) |->
                     [c \in Range(columns) |->
                        CASE c = "identifier" -> i - 1
                          [] c = "timestamp" -> ToDatetime(df.rows[i]["date"])
                          [] c = "partition" -> partition
                          [] OTHER -> df.rows[i][c]]]]

\* The copy of df with the identifier, timestamp and partition columns set
\* (a column that is already there is overwritten in place).
Prepared(df, first_id, partition) ==
    LET columns ==
            df.columns \o SelectSeq(added_cols, LAMBDA c : ~HasColumn(df, c))
    IN  [columns |-> columns,
         rows |-> [i \in 1..Len(df.rows) |->
                     [c \in Range(columns) |->
                        CASE c = "identifier" -> first_id + i - 1
                          [] c = "timestamp" -> ToDatetime(df.rows[i]["date"])
                          [] c = "partition" -> partition
                          [] OTHER -> df.rows[i][c]]]]

\* combined_df[combined_df['partition'] == p]
Partition(df, p) ==
    [columns |-> df.columns,
     rows |-> SelectSeq(df.rows, LAMBDA row : row["partition"] = p)]

NannyFeatureCols(df) ==
    SelectSeq(df.columns,
              LAMBDA c : c \notin nanny_exclude_cols
                                   \cup {target} \cup Range(added_cols))

\* prepare_data_for_nannyml(reference_df, production_df): works on copies;
\* reference_df['date'] or production_df['date'] raises KeyError('date').
PrepareDataForNannyml ==
    /\ "drift_analysis_nannyml" \in running
    /\ nanny_pc = "prepare_data_for_nannyml"
    /\ IF ~HasColumn(reference_df, "date") \/ ~HasColumn(production_df, "date")
       THEN /\ nanny_pc' = "raised"
            /\ nanny_error' = KeyError("date")
            /\ UNCHANGED prepVars
       ELSE LET n == Len(reference_df.rows)
                combined ==
                    Concat(Prepared(reference_df, 0, "reference"),
                           Prepared(production_df, n, "analysis"))
            IN  /\ combined_df' = combined
                /\ feature_cols' = NannyFeatureCols(combined)
                /\ nanny_pc' = "analyze_with_nannyml"
                /\ UNCHANGED nanny_error
    /\ UNCHANGED <<otherVars, dataVars, simpleVars, statVars, perfVars, files>>

\* analyze_with_nannyml, the library path: nannyml is importable and its
\* calculator runs; the result is the library's and the report is written.
AnalyzeWithNannyml ==
    /\ "drift_analysis_nannyml" \in running
    /\ nanny_pc = "analyze_with_nannyml"
    /\ nanny_pc' = "analyze_model_performance"
    /\ nanny_path' = "nannyml"
    /\ files' = files \cup {"nannyml_drift_report.html"}
    /\ UNCHANGED <<otherVars, dataVars, simpleVars, nanny_error, prepVars,
                   stat_df, stat_locals, nanny_stats, perfVars>>

\* analyze_with_nannyml, the except path:
\* perform_statistical_drift_analysis(combined_df, feature_cols, target).
\* Every name of feature_cols is a column of combined_df; without features
\* drift_df has no column and drift_df['drift_detected'] raises.
PerformStatisticalDriftAnalysis ==
    /\ "drift_analysis_nannyml" \in running
    /\ nanny_pc = "analyze_with_nannyml"
    /\ nanny_path' = "fallback"
    /\ LET reference_data == Partition(combined_df, "reference")
           analysis_data == Partition(combined_df, "analysis")
           locals == LoopLocals(reference_data, analysis_data, feature_cols)
       IN  /\ stat_locals' = locals
           /\ nanny_stats' = 4 * Len(feature_cols)
           /\ IF feature_cols = <<>>
              THEN /\ nanny_pc' = "raised"
                   /\ nanny_error' = KeyError("drift_detected")
                   /\ UNCHANGED <<stat_df, files>>
              ELSE /\ nanny_pc' = "analyze_model_performance"
                   /\ stat_df' = Records(locals)
                   /\ files' = files \cup {"drift_analysis_results.csv"}
                   /\ UNCHANGED nanny_error
    /\ UNCHANGED <<otherVars, dataVars, simpleVars, prepVars, perfVars>>

\* The keys of analyze_model_performance's models dict, in order.
nanny_model_keys == <<"XGBoost", "GradientBoosting", "RandomForest">>

\* The RMSE values sklearn may return.
RmseSamples == {s.rmse : s \in ScoreSamples}

\* The calls of its try block that may raise, in order.
performance_steps ==
    <<"load_model", "predict(X_ref)", "predict(X_prod)", "rmse(y_ref)",
      "rmse(y_prod)">>

\* analyze_model_performance, up to its loop: setup_mlflow() is called
\* outside any try, and reference_data[target] raises KeyError(target) when
\* the column is absent.
AnalyzeModelPerformanceBegin ==
    /\ "drift_analysis_nannyml" \in running
    /\ nanny_pc = "analyze_model_performance"
    /\ \/ /\ nanny_pc' = "raised"
          /\ nanny_error' = MlflowError
          /\ UNCHANGED perfVars
       \/ IF ~HasColumn(combined_df, target)
          THEN /\ nanny_pc' = "raised"
               /\ nanny_error' = KeyError(target)
               /\ UNCHANGED perfVars
          ELSE /\ nanny_pc' = "performance_loop"
               /\ perf_idx' = 1
               /\ perf_results' = <<>>
               /\ UNCHANGED <<nanny_error, perf_log>>
    /\ UNCHANGED <<otherVars, dataVars, simpleVars, prepVars, statVars, files>>

PerformanceRecord(model_name, ref_rmse, prod_rmse) ==
    [model |-> model_name,
     ref_rmse |-> ref_rmse,
     prod_rmse |-> prod_rmse,
     rmse_change_pct |-> RmseChange(prod_rmse, ref_rmse)]

\* One iteration of the loop over models.items(): the model is loaded and
\* scored inside one try block, whose except clause prints the model's name.
AnalyzeModelPerformanceIteration ==
    /\ "drift_analysis_nannyml" \in running
    /\ nanny_pc = "performance_loop"
    /\ perf_idx <= Len(nanny_model_keys)
    /\ \/ /\ \E step \in Range(performance_steps) :
                perf_log' =
                    Append(perf_log,
                           [model |-> nanny_model_keys[perf_idx],
                            step |-> step])
          /\ UNCHANGED perf_results
       \/ /\ Len(Partition(combined_df, "reference").rows) > 0
          /\ Len(Partition(combined_df, "analysis").rows) > 0
          /\ \E ref_rmse \in RmseSamples, prod_rmse \in RmseSamples :
                perf_results' =
                    Append(perf_results,
                           PerformanceRecord(nanny_model_keys[perf_idx],
                                             ref_rmse, prod_rmse))
          /\ UNCHANGED perf_log
    /\ perf_idx' = perf_idx + 1
    /\ UNCHANGED <<otherVars, dataVars, simpleVars, nanny_pc, nanny_error,
                   prepVars, statVars, files>>

\* The loop is over: results_df.to_csv("model_performance_drift.csv") and
\* return results_df.
AnalyzeModelPerformanceReturn ==
    /\ "drift_analysis_nannyml" \in running
    /\ nanny_pc = "performance_loop"
    /\ perf_idx > Len(nanny_model_keys)
    /\ files' = files \cup {"model_performance_drift.csv"}
    /\ nanny_pc' = "done"
    /\ UNCHANGED <<otherVars, dataVars, simpleVars, nanny_error, prepVars,
                   statVars, perfVars>>

\* ------------------------------------------------------------ api/main.py

MaxRequests == 3

None == "None"

\* The predictions a loaded model may return for the request's features.
Predictions == {Rat(50), Rat(60)}

\* The startup handler load_models(): setup_mlflow() and the three
\* load_model calls are inside one outer try, each call in a try of its own;
\* a global is assigned only when its call returns.
ApiLoadModels ==
    /\ api_pc = "startup"
    /\ api_pc' = "serving"
    /\ \/ UNCHANGED <<model1, model2, model3, api_load_calls>>
       \/ \E served \in SUBSET Range(registry_names) :
             LET calls == LoadCalls(served)
                 Global(i) ==
                     IF LoadedBy(calls, i) THEN registry_names[i] ELSE None
             IN  /\ api_load_calls' = calls
                 /\ model1' = Global(1)
                 /\ model2' = Global(2)
                 /\ model3' = Global(3)
    /\ UNCHANGED <<driftVars, cleaningVars, scriptVars, responses>>

\* if model is not None: list.append(name)
Listed(model, name) == IF model # None THEN <<name>> ELSE <<>>

\* The same body with the test of model2 repeated for the third name.
HealthBodyCopiedTest ==
    [status |-> "healthy",
     models_loaded |->
         Listed(model1, "xgboost") \o Listed(model2, "gradient_boosting")
             \o Listed(model2, "random_forest")]

\* What health_check() returns (without its timestamp).
HealthBody ==
    [status |-> "healthy",
     models_loaded |->
         Listed(model1, "xgboost") \o Listed(model2, "gradient_boosting")
             \o Listed(model3, "random_forest")]

\* What list_models() returns.
ModelsBody ==
    LET api_models ==
            Listed(model1, "XGBoost") \o Listed(model2, "GradientBoosting")
                \o Listed(model3, "RandomForest")
    IN  [models |-> api_models, count |-> Len(api_models)]

\* A response: the endpoint, the status code, the JSON body and the objects
\* whose predict() the handler called.
Response(endpoint, status, body, predict_on) ==
    [endpoint |-> endpoint, status |-> status, body |-> body,
     predict_on |-> predict_on]

\* A handler that forgets a model whose predict raised: the globals are
\* written while requests are served.
AnswerForgetting(response) ==
    /\ api_pc = "serving"
    /\ Len(responses) < MaxRequests
    /\ responses' = Append(responses, response)
    /\ model1' = IF response.status = 500 /\ response.predict_on = <<model1>>
                 THEN None ELSE model1
    /\ UNCHANGED <<driftVars, cleaningVars, scriptVars, model2, model3, api_pc,
                   api_load_calls>>

\* The API answers one more request. The handlers are coroutines without an
\* await, so each runs to its end before the next starts; none of them
\* declares the globals, so none assigns them.
Answer(response) ==
    /\ api_pc = "serving"
    /\ Len(responses) < MaxRequests
    /\ responses' = Append(responses, response)
    /\ UNCHANGED <<driftVars, cleaningVars, scriptVars, model1, model2,
                   model3, api_pc, api_load_calls>>

HealthCheck == Answer(Response("/health", 200, HealthBody, <<>>))

ListModels == Answer(Response("/models", 200, ModelsBody, <<>>))

\* The same handler without its guard: predict is called on whatever the
\* global holds, and None has no predict.
PredictUnguarded(endpoint, model, model_name, label) ==
    \/ Answer(Response(endpoint, 500, [detail |-> "Internal Server Error"],
                       <<model>>))
    \/ /\ model # None
       /\ \E prediction \in Predictions :
             Answer(Response(endpoint, 200,
                             [model_name |-> model_name,
                              model_version |-> "latest",
                              prediction |-> prediction],
                             <<model>>))

\* A predict endpoint on the global `model`: 503 when it is None; otherwise
\* model.predict is called, and either raises, which the framework answers
\* with 500, or returns the prediction of the PredictionResponse.
Predict(endpoint, model, model_name, label) ==
    \/ /\ model = None
       /\ Answer(Response(endpoint, 503,
                          [detail |-> label \o " model not loaded"], <<>>))
    \/ /\ model # None
       /\ Answer(Response(endpoint, 500,
                          [detail |-> "Internal Server Error"], <<model>>))
    \/ /\ model # None
       /\ \E prediction \in Predictions :
             Answer(Response(endpoint, 200,
                             [model_name |-> model_name,
                              model_version |-> "latest",
                              prediction |-> prediction],
                             <<model>>))

PredictModel1 == Predict("/predict_model1", model1, "XGBoost", "XGBoost")

PredictModel2 ==
    Predict("/predict_model2", model2, "GradientBoosting", "Gradient Boosting")

PredictModel3 ==
    Predict("/predict_model3", model3, "RandomForest", "Random Forest")

\* ------------------------------------------------------ data_cleaning.py

MaxRawRows == 5

\* The lines of the raw CSV file: the date and the target of each.
RawSamples ==
    { [date |-> Dates[1], Appliances |-> 50],
      [date |-> Dates[2], Appliances |-> 50],
      [date |-> Dates[3], Appliances |-> 50],
      [date |-> Dates[2], Appliances |-> 1000] }

\* A frame of data_cleaning is the sequence of its rows, each with its index
\* label.  pd.read_csv labels the rows 0, 1, ...
ReadRaw(samples) ==
    [i \in 1..Len(samples) |->
       [index |-> i - 1, date |-> samples[i].date,
        Appliances |-> samples[i].Appliances]]

\* The orders sort_values('date') may give the rows of S: the dates never
\* decrease; the default sort is not stable, so that rows of equal date may
\* come in any order.
RECURSIVE SortValues(_)
SortValues(S) ==
    IF S = {} THEN {<<>>}
    ELSE LET first == {r \in S : \A q \in S : r.date <= q.date}
         IN  UNION {{<<r>> \o t : t \in SortValues(S \ {r})} : r \in first}

\* reset_index(drop=True): the rows are labelled anew 0, 1, ...
ResetIndex(rows) ==
    [i \in DOMAIN rows |-> [rows[i] EXCEPT !.index = i - 1]]

\* convert_date_column(df): the dates become timestamps, the rows are sorted
\* by date and labelled anew.
ConvertDateColumn ==
    /\ cleaning_pc = "convert_date_column"
    /\ LET stamped ==
               {[cleaned_df[i] EXCEPT !.date = ToDatetime(@)] :
                   i \in DOMAIN cleaned_df}
       IN  \E sorted \in SortValues(stamped) :
              cleaned_df' = ResetIndex(sorted)
    /\ cleaning_pc' = "handle_outliers"
    /\ UNCHANGED <<driftVars, apiVars, scriptVars, simVars, train_df, val_df,
                   test_df,
                   cleaning_error>>

\* The values of `col` in increasing order.
RECURSIVE Sorted(_)
Sorted(col) ==
    IF col = <<>> THEN <<>>
    ELSE LET i == CHOOSE j \in DOMAIN col :
                      \A k \in DOMAIN col : col[j] <= col[k]
         IN  <<col[i]>> \o Sorted(SubSeq(col, 1, i - 1)
                                      \o SubSeq(col, i + 1, Len(col)))

\* Series.quantile(num/4) of a column that is not empty, by linear
\* interpolation between the two nearest values.
Quantile(col, num) ==
    LET v == Sorted(col)
        pos == num * (Len(v) - 1)
        lo == pos \div 4 + 1
        hi == IF pos % 4 = 0 THEN lo ELSE lo + 1
    IN  RAdd(Rat(v[lo]),
             RMul(Norm(pos % 4, 4), RSub(Rat(v[hi]), Rat(v[lo]))))

\* handle_outliers(df): the rows whose target is within 3 IQR of the
\* quartiles are kept, with their labels.  Without rows the quartiles are
\* NaN, no row is kept, and removed_count/original_count divides by zero.
HandleOutliers ==
    /\ cleaning_pc = "handle_outliers"
    /\ IF cleaned_df = <<>>
       THEN /\ cleaning_pc' = "raised"
            /\ cleaning_error' = [type |-> "ZeroDivisionError", key |-> ""]
            /\ UNCHANGED cleaned_df
       ELSE LET col == [i \in DOMAIN cleaned_df |-> cleaned_df[i].Appliances]
                Q1 == Quantile(col, 1)
                Q3 == Quantile(col, 3)
                IQR == RSub(Q3, Q1)
                lower_bound == RSub(Q1, RMul(Rat(3), IQR))
                upper_bound == RAdd(Q3, RMul(Rat(3), IQR))
            IN  /\ cleaned_df' =
                       SelectSeq(cleaned_df,
                                 LAMBDA r :
                                     /\ RGe(Rat(r.Appliances), lower_bound)
                                     /\ RGe(upper_bound, Rat(r.Appliances)))
                /\ cleaning_pc' = "time_based_split"
                /\ UNCHANGED cleaning_error
    /\ UNCHANGED <<driftVars, apiVars, scriptVars, simVars, train_df, val_df,
                   test_df>>

\* rows.loc[start:stop]: by label, and the stop is included.
Loc(rows, start, stop) ==
    SelectSeq(rows, LAMBDA r : start <= r.index /\ r.index <= stop)

\* rows.iloc[start:stop]: by position from 0, the stop excluded.
Iloc(rows, start, stop) == SubSeq(rows, start + 1, stop)

\* int(total_rows * percent / 100) as computed in doubles for
\* percent = 35, 70 and 80; the product is exact below 90 rows.
IntOfShare(total_rows, percent) == (total_rows * percent) \div 100

\* time_based_split(df): the three slices; the messages divide by total_rows.
TimeBasedSplit ==
    /\ cleaning_pc = "time_based_split"
    /\ LET total_rows == Len(cleaned_df)
           train_end == IntOfShare(total_rows, 35)
           val_end == IntOfShare(total_rows, 70)
       IN  IF total_rows = 0
           THEN /\ cleaning_pc' = "raised"
                /\ cleaning_error' = [type |-> "ZeroDivisionError", key |-> ""]
                /\ UNCHANGED <<train_df, val_df, test_df>>
           ELSE /\ train_df' = Iloc(cleaned_df, 0, train_end)
                /\ val_df' = Iloc(cleaned_df, train_end, val_end)
                /\ test_df' = Iloc(cleaned_df, val_end, total_rows)
                /\ cleaning_pc' = "create_drift_data"
                /\ UNCHANGED cleaning_error
    /\ UNCHANGED <<driftVars, apiVars, scriptVars, simVars, cleaned_df>>

\* The same function with the cut at 60%.
CreateDriftDataLastForty ==
    /\ cleaning_pc = "create_drift_data"
    /\ LET total_rows == Len(cleaned_df)
           drift_start == IntOfShare(total_rows, 60)
       IN  production_sim_df' = Iloc(cleaned_df, drift_start, total_rows)
    /\ cleaning_pc' = "save_splits"
    /\ UNCHANGED <<driftVars, apiVars, scriptVars, cleaned_df, train_df,
                   val_df, test_df, cleaning_error, saved>>

\* create_drift_data(df), called on the frame time_based_split was called
\* on, which is not empty when that call has returned.
CreateDriftData ==
    /\ cleaning_pc = "create_drift_data"
    /\ LET total_rows == Len(cleaned_df)
           drift_start == IntOfShare(total_rows, 80)
       IN  production_sim_df' = Iloc(cleaned_df, drift_start, total_rows)
    /\ cleaning_pc' = "save_splits"
    /\ UNCHANGED <<driftVars, apiVars, scriptVars, cleaned_df, train_df,
                   val_df, test_df, cleaning_error, saved>>

CLEANED_DIR == "data/cleaned"

DRIFT_DIR == "data/drift"

\* frame.to_csv(path, index=False): the rows without their labels.
ToCsv(rows) ==
    [i \in DOMAIN rows |->
        [date |-> rows[i].date, Appliances |-> rows[i].Appliances]]

\* save_splits(train_df, val_df, test_df, drift_df): the four files, written
\* in this order into the directories made when the module was loaded.
SaveSplits ==
    /\ cleaning_pc = "save_splits"
    /\ saved' =
           (CLEANED_DIR \o "/train.csv" :> ToCsv(train_df))
               @@ (CLEANED_DIR \o "/validate.csv" :> ToCsv(val_df))
               @@ (CLEANED_DIR \o "/test.csv" :> ToCsv(test_df))
               @@ (DRIFT_DIR \o "/production_data.csv"
                       :> ToCsv(production_sim_df))
    /\ cleaning_pc' = "print_summary_statistics"
    /\ UNCHANGED <<driftVars, apiVars, scriptVars, cleaned_df, train_df,
                   val_df, test_df, cleaning_error, production_sim_df>>

\* ------------------------------------------- promote_champion_model.py

MaxVersions == 3

\* The stages of the MLflow model registry.
Stages == {"None", "Staging", "Production", "Archived"}

champion == "RandomForest_Energy_Model"

VersionsIn(reg, stage) == {v \in DOMAIN reg : reg[v] = stage}

Latest(versions) == CHOOSE v \in versions : \A w \in versions : w <= v

\* client.get_latest_versions(model_name, stages): for each of the stages
\* that holds a version, the version with the highest number.
GetLatestVersions(reg, stages) ==
    LET held == SelectSeq(stages, LAMBDA st : VersionsIn(reg, st) # {})
    IN  [i \in DOMAIN held |-> Latest(VersionsIn(reg, held[i]))]

\* client.transition_model_version_stage(name, version, stage,
\* archive_existing_versions): the registry after the call.
TransitionModelVersionStage(reg, version, stage, archive_existing_versions) ==
    [v \in DOMAIN reg |->
        CASE v = version -> stage
          [] v # version /\ archive_existing_versions /\ reg[v] = stage ->
                "Archived"
          [] OTHER -> reg[v]]

\* A call of the registry client, as the server sees it.
LookupCall(stages) ==
    [call |-> "get_latest_versions", name |-> champion, stages |-> stages]

TransitionCall(version, stage, archive_existing_versions) ==
    [call |-> "transition_model_version_stage", name |-> champion,
     version |-> version, stage |-> stage,
     archive_existing_versions |-> archive_existing_versions]

PromoteRaises ==
    /\ promote_pc' = "raised"
    /\ promote_error' = MlflowError

\* setup_mlflow() and MlflowClient(): the tracking server answers or not.
PromoteSetup ==
    /\ promote_pc = "setup_mlflow"
    /\ \/ PromoteRaises
       \/ promote_pc' = "get_latest_versions" /\ UNCHANGED promote_error
    /\ UNCHANGED <<driftVars, apiVars, cleaningVars, automlVars, registry,
                   registry_before, registry_calls, latest_versions,
                   prod_versions, promote_out>>

\* latest_versions = client.get_latest_versions(model_name, stages=["None"])
\* and the test of the list: an empty one ends the function.
PromoteLookup ==
    /\ promote_pc = "get_latest_versions"
    /\ registry_calls' = Append(registry_calls, LookupCall(<<"None">>))
    /\ \/ PromoteRaises /\ UNCHANGED <<latest_versions, promote_out>>
       \/ /\ latest_versions' = GetLatestVersions(registry, <<"None">>)
          /\ IF latest_versions' = <<>>
             THEN /\ promote_out' = "[ERROR] No versions found"
                  /\ promote_pc' = "returned"
             ELSE /\ promote_pc' = "transition_model_version_stage"
                  /\ UNCHANGED promote_out
          /\ UNCHANGED promote_error
    /\ UNCHANGED <<driftVars, apiVars, cleaningVars, automlVars, registry,
                   registry_before, prod_versions>>

\* The same call without archive_existing_versions.
PromoteTransitionKeepingExisting ==
    /\ promote_pc = "transition_model_version_stage"
    /\ LET latest_version == latest_versions[1]
           after ==
               TransitionModelVersionStage(registry, latest_version,
                                           "Production", FALSE)
       IN  /\ registry_calls' =
                  Append(registry_calls,
                         TransitionCall(latest_version, "Production", FALSE))
           /\ \/ PromoteRaises /\ registry' \in {registry, after}
              \/ /\ registry' = after
                 /\ promote_pc' = "get_latest_versions_production"
                 /\ UNCHANGED promote_error
    /\ UNCHANGED <<driftVars, apiVars, cleaningVars, automlVars,
                   registry_before, latest_versions, prod_versions,
                   promote_out>>

\* client.transition_model_version_stage(name=model_name,
\* version=latest_versions[0].version, stage="Production",
\* archive_existing_versions=True).  A call that raises may or may not have
\* been carried out by the server.
PromoteTransition ==
    /\ promote_pc = "transition_model_version_stage"
    /\ LET latest_version == latest_versions[1]
           after ==
               TransitionModelVersionStage(registry, latest_version,
                                           "Production", TRUE)
       IN  /\ registry_calls' =
                  Append(registry_calls,
                         TransitionCall(latest_version, "Production", TRUE))
           /\ \/ PromoteRaises /\ registry' \in {registry, after}
              \/ /\ registry' = after
                 /\ promote_pc' = "get_latest_versions_production"
                 /\ UNCHANGED promote_error
    /\ UNCHANGED <<driftVars, apiVars, cleaningVars, automlVars,
                   registry_before, latest_versions, prod_versions,
                   promote_out>>

\* prod_versions = client.get_latest_versions(model_name,
\* stages=["Production"]), printed when not empty, and the closing lines.
PromoteVerify ==
    /\ promote_pc = "get_latest_versions_production"
    /\ registry_calls' = Append(registry_calls, LookupCall(<<"Production">>))
    /\ \/ PromoteRaises /\ UNCHANGED <<prod_versions, promote_out>>
       \/ /\ prod_versions' = GetLatestVersions(registry, <<"Production">>)
          /\ promote_out' = "[OK] CHAMPION MODEL PROMOTED TO PRODUCTION"
          /\ promote_pc' = "returned"
          /\ UNCHANGED promote_error
    /\ UNCHANGED <<driftVars, apiVars, cleaningVars, automlVars, registry,
                   registry_before, latest_versions>>

\* ------------------------------------------------------- h2o_automl.py

\* range(min(10, len(lb_df)))
head_rows == 10

\* len(model_types) == 3
top_types == 3

\* A model_id is the sequence of the parts its underscores separate, the
\* first of which names the algorithm: GBM_1_AutoML is <<"GBM", "1",
\* "AutoML">>.
ModelIds ==
    { <<"StackedEnsemble", "AllModels", "1", "AutoML">>,
      <<"GBM", "1", "AutoML">>,
      <<"XGBoost", "grid", "1", "AutoML">>,
      <<"DeepLearning", "1", "AutoML">>,
      <<"GLM", "1", "AutoML">>,
      <<"DRF", "1", "AutoML">>,
      <<"XRT", "1", "AutoML">> }

\* tag in model_id, for a tag without underscore and an id whose parts are
\* the algorithm, words and numbers.
In(tag, model_id) == tag \in Range(model_id)

\* The if/elif chain of the loop.
ModelType(model_id) ==
    IF In("StackedEnsemble", model_id) THEN "StackedEnsemble"
    ELSE IF In("GBM", model_id) THEN "GBM (Gradient Boosting Machine)"
    ELSE IF In("XGBoost", model_id) THEN "XGBoost"
    ELSE IF In("DeepLearning", model_id) THEN "Deep Learning"
    ELSE IF In("GLM", model_id) THEN "GLM (Generalized Linear Model)"
    ELSE IF In("DRF", model_id) THEN "DRF (Distributed Random Forest)"
    ELSE model_id[1]  \* model_id.split('_')[0]

Min(a, b) == IF a <= b THEN a ELSE b

\* The same iteration without the test that leaves the loop.
SelectIterationNoBreak ==
    /\ automl_pc = "for"
    /\ automl_i < Min(head_rows, Len(lb_df))
    /\ LET model_id == lb_df[automl_i + 1]
           model_type == ModelType(model_id)
       IN  /\ examined' = Append(examined, automl_i)
           /\ automl_i' = automl_i + 1
           /\ IF model_type \notin Range(model_types)
                 /\ model_type # "StackedEnsemble"
              THEN model_types' = Append(model_types, model_type)
              ELSE UNCHANGED model_types
           /\ UNCHANGED automl_pc
    /\ UNCHANGED <<driftVars, apiVars, cleaningVars, promoteVars, lb_df>>

\* One iteration of `for i in range(min(10, len(lb_df)))`: the row is read,
\* its type is appended when it is new and not StackedEnsemble, and the
\* third type appended ends the loop.
SelectIteration ==
    /\ automl_pc = "for"
    /\ automl_i < Min(head_rows, Len(lb_df))
    /\ LET model_id == lb_df[automl_i + 1]
           model_type == ModelType(model_id)
       IN  /\ examined' = Append(examined, automl_i)
           /\ automl_i' = automl_i + 1
           /\ IF model_type \notin Range(model_types)
                 /\ model_type # "StackedEnsemble"
              THEN /\ model_types' = Append(model_types, model_type)
                   /\ automl_pc' = IF Len(model_types') = top_types
                                   THEN "save" ELSE "for"
              ELSE UNCHANGED <<model_types, automl_pc>>
    /\ UNCHANGED <<driftVars, apiVars, cleaningVars, promoteVars, lb_df>>

\* The range is exhausted.
SelectEnd ==
    /\ automl_pc = "for"
    /\ automl_i = Min(head_rows, Len(lb_df))
    /\ automl_pc' = "save"
    /\ UNCHANGED <<driftVars, apiVars, cleaningVars, promoteVars, lb_df,
                   automl_i, examined, model_types>>

\* ------------------------------------------------------ specifications

\* promote_to_production has not been called; the registry holds no version.
PromoteInit ==
    /\ registry = <<>>
    /\ registry_before = <<>>
    /\ registry_calls = <<>>
    /\ promote_pc = "setup_mlflow"
    /\ latest_versions = <<>>
    /\ prod_versions = <<>>
    /\ promote_out = ""
    /\ promote_error = NoError

\* h2o_automl.main has not trained anything.
AutomlInit ==
    /\ lb_df = <<>>
    /\ automl_pc = "train"
    /\ automl_i = 0
    /\ examined = <<>>
    /\ model_types = <<>>

\* The scripts that are run by hand have not been started.
ScriptsInit == PromoteInit /\ AutomlInit

\* data_cleaning.main has read nothing.
CleaningInit ==
    /\ cleaning_pc = "load_data"
    /\ cleaned_df = <<>>
    /\ train_df = <<>>
    /\ val_df = <<>>
    /\ test_df = <<>>
    /\ cleaning_error = NoError
    /\ production_sim_df = <<>>
    /\ saved = <<>>

\* The API process before its startup handler has run.
ApiInit ==
    /\ model1 = None
    /\ model2 = None
    /\ model3 = None
    /\ api_pc = "startup"
    /\ api_load_calls = <<>>
    /\ responses = <<>>

\* The headers production_data.csv may have: that of test.csv, or one that
\* lacks a feature column.
ProductionHeaders == {CsvColumns, Without(CsvColumns, "RH_1")}

\* Nothing computed yet.
Fresh ==
    /\ drift_df = <<>>
    /\ drift_locals = <<>>
    /\ simple_error = NoError
    /\ simple_stats = 0
    /\ plot_path = ""
    /\ report = <<>>
    /\ pred_idx = 0
    /\ pred_results = <<>>
    /\ pred_log = <<>>
    /\ nanny_pc = "prepare_data_for_nannyml"
    /\ nanny_path = ""
    /\ combined_df = EmptyFrame
    /\ feature_cols = <<>>
    /\ stat_df = <<>>
    /\ stat_locals = <<>>
    /\ nanny_error = NoError
    /\ nanny_stats = 0
    /\ perf_idx = 0
    /\ perf_results = <<>>
    /\ perf_log = <<>>
    /\ files = {}

\* After load_data(), and load_models() in drift_analysis.main with the
\* registry answering for all three models: any two frames of at most MaxRows
\* rows, on which both scripts are run.
InitFeature ==
    /\ \E rs \in BoundedSeq(RowSamples, MaxRows),
          ps \in BoundedSeq(RowSamples, MaxRows),
          header \in ProductionHeaders :
          /\ reference_df = ReadCsv(CsvColumns, rs)
          /\ production_df = ReadCsv(header, ps)
    /\ running = {"drift_analysis", "drift_analysis_nannyml"}
    /\ simple_pc = "analyze_data_drift"
    /\ simple_returned = <<"load_data", "load_models">>
    /\ models = model_keys
    /\ load_calls = LoadCalls(Range(registry_names))
    /\ Fresh
    /\ ApiInit
    /\ CleaningInit
    /\ ScriptsInit

\* The feature-drift computations of the two scripts.
NextFeature ==
    \/ AnalyzeDataDrift
    \/ PrepareDataForNannyml
    \/ AnalyzeWithNannyml
    \/ PerformStatisticalDriftAnalysis

SpecFeature == InitFeature /\ [][NextFeature]_vars

\* The rows of the two files in the runs that score the models.
MainSamples ==
    <<[Appliances |-> 50, T1 |-> 19, RH_1 |-> -10, rv1 |-> 7],
      [Appliances |-> 60, T1 |-> 21, RH_1 |-> 5, rv1 |-> 7]>>

\* Rows of production_data.csv in which RH_1 has drifted and T1 has not.
DriftedSamples ==
    <<[Appliances |-> 50, T1 |-> 19, RH_1 |-> 5, rv1 |-> 7],
      [Appliances |-> 60, T1 |-> 21, RH_1 |-> 5, rv1 |-> 7]>>

\* One of the two scripts is started, on files that have no row, the rows of
\* MainSamples or, for the production file, those of DriftedSamples.
InitModels ==
    /\ \E rs \in {<<>>, MainSamples},
          ps \in {<<>>, MainSamples, DriftedSamples} :
          /\ reference_df = ReadCsv(CsvColumns, rs)
          /\ production_df = ReadCsv(CsvColumns, ps)
    /\ running \in {{"drift_analysis"}, {"drift_analysis_nannyml"}}
    /\ simple_pc = "load_data"
    /\ simple_returned = <<>>
    /\ models = <<>>
    /\ load_calls = <<>>
    /\ Fresh
    /\ ApiInit
    /\ CleaningInit
    /\ ScriptsInit

NextModels ==
    \/ LoadData
    \/ LoadModels
    \/ AnalyzeDataDrift
    \/ AnalyzePredictionDriftBegin
    \/ PredictionDriftIteration
    \/ AnalyzePredictionDriftReturn
    \/ CreateVisualizations
    \/ GenerateHtmlReport
    \/ PrepareDataForNannyml
    \/ AnalyzeWithNannyml
    \/ PerformStatisticalDriftAnalysis
    \/ AnalyzeModelPerformanceBegin
    \/ AnalyzeModelPerformanceIteration
    \/ AnalyzeModelPerformanceReturn

SpecModels == InitModels /\ [][NextModels]_vars

\* The API process is started; neither drift script is.
InitApi ==
    /\ reference_df = EmptyFrame
    /\ production_df = EmptyFrame
    /\ running = {}
    /\ simple_pc = "load_data"
    /\ simple_returned = <<>>
    /\ models = <<>>
    /\ load_calls = <<>>
    /\ Fresh
    /\ ApiInit
    /\ CleaningInit
    /\ ScriptsInit

NextApi ==
    \/ ApiLoadModels
    \/ HealthCheck
    \/ ListModels
    \/ PredictModel1
    \/ PredictModel2
    \/ PredictModel3

SpecApi == InitApi /\ [][NextApi]_vars

\* data_cleaning.main after load_data() and check_missing_values(): the raw
\* file has at most MaxRawRows lines; nothing else runs.
InitCleaning ==
    /\ \E samples \in BoundedSeq(RawSamples, MaxRawRows) :
          cleaned_df = ReadRaw(samples)
    /\ cleaning_pc = "convert_date_column"
    /\ train_df = <<>>
    /\ val_df = <<>>
    /\ test_df = <<>>
    /\ cleaning_error = NoError
    /\ production_sim_df = <<>>
    /\ saved = <<>>
    /\ reference_df = EmptyFrame
    /\ production_df = EmptyFrame
    /\ running = {}
    /\ simple_pc = "load_data"
    /\ simple_returned = <<>>
    /\ models = <<>>
    /\ load_calls = <<>>
    /\ Fresh
    /\ ApiInit
    /\ ScriptsInit

NextCleaning ==
    \/ ConvertDateColumn
    \/ HandleOutliers
    \/ TimeBasedSplit
    \/ CreateDriftData
    \/ SaveSplits

SpecCleaning == InitCleaning /\ [][NextCleaning]_vars

\* promote_to_production is called on a registry that holds up to
\* MaxVersions versions of the champion model, each in any stage.
InitPromote ==
    /\ \E n \in 0..MaxVersions : registry \in [1..n -> Stages]
    /\ registry_before = registry
    /\ registry_calls = <<>>
    /\ promote_pc = "setup_mlflow"
    /\ latest_versions = <<>>
    /\ prod_versions = <<>>
    /\ promote_out = ""
    /\ promote_error = NoError
    /\ reference_df = EmptyFrame
    /\ production_df = EmptyFrame
    /\ running = {}
    /\ simple_pc = "load_data"
    /\ simple_returned = <<>>
    /\ models = <<>>
    /\ load_calls = <<>>
    /\ Fresh
    /\ ApiInit
    /\ CleaningInit
    /\ AutomlInit

NextPromote ==
    \/ PromoteSetup
    \/ PromoteLookup
    \/ PromoteTransition
    \/ PromoteVerify

SpecPromote == InitPromote /\ [][NextPromote]_vars

MaxRepeat == 10

MaxRest == 3

Repeat(x, k) == [j \in 1..k |-> x]

\* h2o_automl.main at `model_types = []`: the leaderboard, best model
\* first, opens with up to MaxRepeat models of one algorithm and goes on
\* with up to MaxRest models of any.
InitAutoml ==
    /\ \E first \in ModelIds, k \in 0..MaxRepeat,
          rest \in BoundedSeq(ModelIds, MaxRest) :
          lb_df = Repeat(first, k) \o rest
    /\ automl_pc = "for"
    /\ automl_i = 0
    /\ examined = <<>>
    /\ model_types = <<>>
    /\ reference_df = EmptyFrame
    /\ production_df = EmptyFrame
    /\ running = {}
    /\ simple_pc = "load_data"
    /\ simple_returned = <<>>
    /\ models = <<>>
    /\ load_calls = <<>>
    /\ Fresh
    /\ ApiInit
    /\ CleaningInit
    /\ PromoteInit

NextAutoml ==
    \/ SelectIteration
    \/ SelectEnd

SpecAutoml == InitAutoml /\ [][NextAutoml]_vars

\* drift_analysis.main is started and the API process is started.
InitLoad ==
    /\ InitModels
    /\ running = {"drift_analysis"}

\* The two programs up to the return of their load_models.
NextLoad ==
    \/ LoadData
    \/ LoadModels
    \/ ApiLoadModels

SpecLoad == InitLoad /\ [][NextLoad]_vars

\* ------------------------------------------------ feature-drift claims

\* The iterations either script has run in this state.
LocalsSeen == Range(drift_locals) \cup Range(stat_locals)

\* The returned records, each with the local variables of its iteration.
Returned ==
    {<<drift_df[i], drift_locals[i]>> : i \in DOMAIN drift_df}
        \cup {<<stat_df[i], stat_locals[i]>> : i \in DOMAIN stat_df}

Ten == Rat(10)

\* analyze_data_drift has been called and has returned or raised.
SimpleRan == simple_pc \notin {"load_data", "load_models", "analyze_data_drift"}

\* perform_statistical_drift_analysis has been called and has returned or
\* raised.
FallbackRan == nanny_path = "fallback"

\* C1: in every returned record drift_detected is true if and only if
\* mean_change_pct > 10 or std_change_pct > 10, the comparison being strict.
C1_DriftIffOverTen ==
    \A rl \in Returned :
        rl[1].drift_detected
            <=> (RGt(rl[1].mean_change_pct, Ten) \/ RGt(rl[2].std_change, Ten))

\* A record whose mean change is exactly 10 and whose std change is not over
\* 10 is returned and not flagged, beside a record that is flagged.
C1_Witness ==
    /\ \E rl \in Returned :
          /\ rl[1].mean_change_pct = Ten
          /\ ~RGt(rl[2].std_change, Ten)
          /\ ~rl[1].drift_detected
    /\ \E rl \in Returned : rl[1].drift_detected

\* C2: a feature whose reference mean is exactly 0 has mean_change_pct 0
\* whatever its production mean, and no division by zero takes place: no
\* error is raised and the change is a finite number.
C2_ZeroReferenceMean ==
    /\ \A l \in LocalsSeen :
          l.ref_mean = Zero => l.mean_change = Zero /\ IsFinite(l.mean_change)
    /\ simple_error.type # "ZeroDivisionError"
    /\ nanny_error.type # "ZeroDivisionError"

\* Reference mean 0.0 and production mean 5.0 give 0 in a returned record.
C2_Witness ==
    \E rl \in Returned :
        /\ rl[1].ref_mean = Zero
        /\ rl[1].prod_mean = Rat(5)
        /\ rl[1].mean_change_pct = Zero

\* C3 as stated: with ref_mean != 0 of either sign, mean_change_pct is
\* |prod_mean - ref_mean| / ref_mean * 100.
C3_AbsDiffOverRefMean ==
    \A l \in LocalsSeen :
        RNe(l.ref_mean, Zero) =>
            l.mean_change =
                RMul(RDiv(RAbs(RSub(l.prod_mean, l.ref_mean)), l.ref_mean),
                     Rat(100))

\* C3 as amended: with ref_mean != 0, mean_change_pct is
\* |prod_mean - ref_mean| / |ref_mean| * 100; reference mean 19 and production
\* mean 21 give 200/19, which is between 10.52 and 10.53, and the flag.
C3_AbsDiffOverAbsRefMean ==
    \A l \in LocalsSeen :
        /\ RNe(l.ref_mean, Zero) =>
              l.mean_change =
                  RMul(RDiv(RAbs(RSub(l.prod_mean, l.ref_mean)),
                            RAbs(l.ref_mean)),
                       Rat(100))
        /\ l.ref_mean = Rat(19) /\ l.prod_mean = Rat(21) =>
              /\ RGt(l.mean_change, <<1052, 100>>)
              /\ RGt(<<1053, 100>>, l.mean_change)
              /\ l.drift_detected

\* Reference mean 19 and production mean 21 with equal std are flagged, and
\* a feature of negative reference mean has a positive change.
C3_Witness ==
    /\ \E rl \in Returned :
          /\ rl[1].ref_mean = Rat(19)
          /\ rl[1].prod_mean = Rat(21)
          /\ rl[2].ref_std = rl[2].prod_std
          /\ rl[1].drift_detected
    /\ \E rl \in Returned :
          /\ RGt(Zero, rl[1].ref_mean)
          /\ RGt(rl[1].mean_change_pct, Zero)

\* The production means the monotonicity of C4 is tried on.
MeanCandidates == {Rat(v) : v \in -12..22} \cup {<<21, 2>>, <<-5, 2>>}

\* C4 as stated: a feature whose reference mean is a nonzero number has
\* mean_change_pct >= 0, and a production mean at least as far from the
\* reference mean gives at least as large a change.
C4_NonNegativeMonotone ==
    \A l \in LocalsSeen :
        IsFinite(l.ref_mean) /\ l.ref_mean # Zero =>
            /\ RGe(l.mean_change, Zero)
            /\ \A q \in MeanCandidates :
                  RGe(RAbs(RSub(q, l.ref_mean)),
                      RAbs(RSub(l.prod_mean, l.ref_mean)))
                      => RGe(MeanChange(q, l.ref_mean), l.mean_change)

\* C5 as stated: identical reference and production datasets give every
\* feature mean_change_pct 0, std_change_pct 0 and no flag.
C5_IdenticalNoDrift ==
    reference_df = production_df =>
        \A l \in LocalsSeen :
            /\ l.mean_change = Zero
            /\ l.std_change = Zero
            /\ ~l.drift_detected

\* The reference features that production_data.csv lacks.
MissingInProduction ==
    {f \in Range(Features(reference_df)) : ~HasColumn(production_df, f)}

\* C7 as stated: when the production dataset lacks a feature column of the
\* reference dataset, a script that has run its drift computation has failed
\* with an error naming a missing column, before computing any statistic,
\* and there is no record for a missing column.
C7_SchemaValidatedFirst ==
    MissingInProduction # {} =>
        /\ SimpleRan =>
              /\ simple_pc = "raised"
              /\ simple_error.key \in MissingInProduction
              /\ simple_stats = 0
        /\ FallbackRan =>
              /\ nanny_pc = "raised"
              /\ nanny_error.key \in MissingInProduction
              /\ nanny_stats = 0
        /\ \A l \in LocalsSeen : l.feature \notin MissingInProduction

\* C8 as stated: when either dataset has zero rows, a script that has run
\* its drift computation has stopped with an error and returned no record,
\* and no record holds a NaN statistic.
C8_EmptyDatasetRejected ==
    Len(reference_df.rows) = 0 \/ Len(production_df.rows) = 0 =>
        /\ SimpleRan => simple_pc = "raised" /\ drift_df = <<>>
        /\ FallbackRan => nanny_pc = "raised" /\ stat_df = <<>>
        /\ \A rl \in Returned :
              /\ ~IsNaN(rl[1].ref_mean)
              /\ ~IsNaN(rl[1].prod_mean)
              /\ ~IsNaN(rl[1].mean_change_pct)

\* The values feature f takes in the reference dataset.
ReferenceValues(f) == Range(Column(reference_df, f))

ModelNames(records) == [i \in DOMAIN records |-> records[i].model]

\* C6: a model whose try block raises is absent from the result, every
\* other model processed so far has its record, in order, and the run is
\* not aborted: once in its loop a script never dies, and the function
\* returns after the last model.  The failing model may be at any position.
C6_FailingModelOmitted ==
    /\ pred_idx > 0 =>
          LET seen == SubSeq(models, 1, pred_idx - 1)
              failed == Range(ModelNames(pred_log))
          IN  /\ ModelNames(pred_results)
                     = SelectSeq(seen, LAMBDA m : m \notin failed)
              /\ failed \subseteq Range(seen)
    /\ nanny_pc \in {"performance_loop", "done"} =>
          LET seen == SubSeq(nanny_model_keys, 1, perf_idx - 1)
              failed == Range(ModelNames(perf_log))
          IN  /\ ModelNames(perf_results)
                     = SelectSeq(seen, LAMBDA m : m \notin failed)
              /\ failed \subseteq Range(seen)
    /\ simple_pc = "raised" /\ pred_idx > 0 =>
          "analyze_prediction_drift" \in Range(simple_returned)
    /\ nanny_pc = "raised" => perf_idx = 0
    /\ simple_pc = "prediction_loop" /\ pred_idx > Len(models) =>
          ENABLED AnalyzePredictionDriftReturn
    /\ nanny_pc = "performance_loop" /\ perf_idx > Len(nanny_model_keys) =>
          ENABLED AnalyzeModelPerformanceReturn

\* analyze_prediction_drift has returned the records of the first and the
\* third of three models, the second having raised during prediction.
C6_Witness ==
    /\ "analyze_prediction_drift" \in Range(simple_returned)
    /\ models = model_keys
    /\ ModelNames(pred_log) = <<"gradient_boosting">>
    /\ pred_log[1].step = "predict(X_ref)"
    /\ ModelNames(pred_results) = <<"xgboost", "random_forest">>

\* The columns of a record of analyze_prediction_drift.
prediction_fields ==
    {"model", "ref_rmse", "prod_rmse", "rmse_change_pct", "ref_mae",
     "prod_mae", "ref_r2", "prod_r2"}

\* The columns of a record of analyze_model_performance.
performance_fields == {"model", "ref_rmse", "prod_rmse", "rmse_change_pct"}

\* In this step `results` is left alone, or gets at its end one record of
\* the model `name` with every one of `fields`, while `log` gets no failure.
OneWholeRecordOrNone(results, results_after, log, log_after, name, fields) ==
    \/ results_after = results
    \/ /\ log_after = log
       /\ Len(results_after) = Len(results) + 1
       /\ SubSeq(results_after, 1, Len(results)) = results
       /\ DOMAIN results_after[Len(results_after)] = fields
       /\ results_after[Len(results_after)].model = name

\* C19: every step of the two model loops leaves the records of the models
\* processed earlier as they are and adds either nothing or one complete
\* record of the model of the iteration, and it adds nothing when anything
\* of that iteration failed, be it on the production set after a success on
\* the reference set; the records are in the iteration order of the models.
C19_NoPartialRecord ==
    [][/\ simple_pc = "prediction_loop" =>
             /\ pred_idx <= Len(models) =>
                   OneWholeRecordOrNone(pred_results, pred_results', pred_log,
                                        pred_log', models[pred_idx],
                                        prediction_fields)
             /\ pred_idx > Len(models) => pred_results' = pred_results
       /\ nanny_pc = "performance_loop" =>
             /\ perf_idx <= Len(nanny_model_keys) =>
                   OneWholeRecordOrNone(perf_results, perf_results', perf_log,
                                        perf_log', nanny_model_keys[perf_idx],
                                        performance_fields)
             /\ perf_idx > Len(nanny_model_keys) =>
                   perf_results' = perf_results
       /\ simple_pc \notin {"prediction_loop", "analyze_prediction_drift"} =>
             pred_results' = pred_results
       /\ nanny_pc \notin {"performance_loop", "analyze_model_performance"} =>
             perf_results' = perf_results]_vars

\* The second of three models has failed on the production set after its
\* reference set was scored, and the result holds the whole records of the
\* first and of the third, in this order.
C19_Witness ==
    /\ models = model_keys
    /\ pred_idx > Len(models)
    /\ pred_log
           = <<[model |-> "gradient_boosting", step |-> "predict(X_prod)"]>>
    /\ ModelNames(pred_results) = <<"xgboost", "random_forest">>
    /\ \A i \in DOMAIN pred_results :
          DOMAIN pred_results[i] = prediction_fields

\* What C9 gives for a reference and a production RMSE.
ExpectedRmseChange(ref_rmse, prod_rmse) ==
    IF ref_rmse # Zero
    THEN RMul(RDiv(RAbs(RSub(prod_rmse, ref_rmse)), ref_rmse), Rat(100))
    ELSE Zero

RmseChangeAsClaimed(r) ==
    /\ r.rmse_change_pct = ExpectedRmseChange(r.ref_rmse, r.prod_rmse)
    /\ r.ref_rmse = r.prod_rmse => r.rmse_change_pct = Zero
    /\ r.ref_rmse = Rat(50) /\ r.prod_rmse = <<105, 2>> =>
          r.rmse_change_pct = Rat(5)

\* C9: every record of a scored model has rmse_change_pct equal to
\* |prod_rmse - ref_rmse| / ref_rmse * 100 when ref_rmse != 0 and to 0 when
\* ref_rmse = 0; equal RMSEs give 0, and 50.0 against 52.5 gives exactly 5.
C9_RmseChange ==
    /\ \A i \in DOMAIN pred_results : RmseChangeAsClaimed(pred_results[i])
    /\ \A i \in DOMAIN perf_results : RmseChangeAsClaimed(perf_results[i])

\* One run has scored a model 50.0 then 52.5, with change 5, and a model 0
\* on the reference set and more on the production set, with change 0.
C9_Witness ==
    /\ \E i \in DOMAIN pred_results :
          /\ pred_results[i].ref_rmse = Rat(50)
          /\ pred_results[i].prod_rmse = <<105, 2>>
          /\ pred_results[i].rmse_change_pct = Rat(5)
    /\ \E i \in DOMAIN pred_results :
          /\ pred_results[i].ref_rmse = Zero
          /\ RGt(pred_results[i].prod_rmse, Zero)
          /\ pred_results[i].rmse_change_pct = Zero

\* --------------------------------------------- result-sequence claims

\* analyze_data_drift has returned its frame.
DataDriftReturned == "analyze_data_drift" \in Range(simple_returned)

FeatureNames(records) == [i \in DOMAIN records |-> records[i].feature]

\* C11: the frame analyze_data_drift returns has exactly one record for each
\* column of the reference dataset other than date, rv1, rv2 and Appliances,
\* none omitted and none twice, in the order of the reference columns.
C11_OneRecordPerFeatureInOrder ==
    DataDriftReturned =>
        FeatureNames(drift_df)
            = SelectSeq(reference_df.columns,
                        LAMBDA c :
                            c \notin {"date", "rv1", "rv2", "Appliances"})

\* The records of T1 and RH_1 are returned in this order, the order of the
\* columns, although the mean of RH_1 has changed more than that of T1.
C11_Witness ==
    /\ DataDriftReturned
    /\ FeatureNames(drift_df) = <<"T1", "RH_1">>
    /\ RGt(drift_df[2].mean_change_pct, drift_df[1].mean_change_pct)
    /\ RGt(drift_df[1].mean_change_pct, Zero)

\* The fields C12 requires of a per-feature record.
RequiredFields ==
    {"ref_mean", "ref_std", "prod_mean", "prod_std", "mean_change_pct",
     "drift_detected"}

\* C12 as stated: every returned per-feature record carries the reference
\* mean and standard deviation, the production mean and standard deviation,
\* the percentage change in mean and the drift flag of its feature.
C12_RecordCarriesMeansAndStds ==
    \A rl \in Returned :
        /\ RequiredFields \subseteq DOMAIN rl[1]
        /\ rl[1].ref_mean = rl[2].ref_mean
        /\ rl[1].ref_std = rl[2].ref_std
        /\ rl[1].prod_mean = rl[2].prod_mean
        /\ rl[1].prod_std = rl[2].prod_std
        /\ rl[1].mean_change_pct = rl[2].mean_change
        /\ rl[1].drift_detected = rl[2].drift_detected

\* C13 as stated: a call of the feature-drift computation leaves the datasets
\* it is given unchanged and writes no file, and what it returns is
\* determined by the datasets alone.
C13_FeatureDriftIsPure ==
    [][/\ AnalyzeDataDrift \/ PerformStatisticalDriftAnalysis =>
             /\ reference_df' = reference_df
             /\ production_df' = production_df
             /\ combined_df' = combined_df
             /\ files' = files
       /\ AnalyzeDataDrift /\ simple_pc' # "raised" =>
             drift_df' = Records(LoopLocals(reference_df, production_df,
                                            FeatureNames(drift_df')))
       /\ PerformStatisticalDriftAnalysis /\ nanny_pc' # "raised" =>
             stat_df' = Records(LoopLocals(Partition(combined_df, "reference"),
                                           Partition(combined_df, "analysis"),
                                           FeatureNames(stat_df')))]_vars

\* ------------------------------------------------------- report claims

\* The calls of drift_analysis.main, in the order of its body.
main_calls ==
    <<"load_data", "load_models", "analyze_data_drift",
      "analyze_prediction_drift", "create_visualizations",
      "generate_html_report">>

\* The call drift_analysis.main is in.
CurrentCall ==
    IF simple_pc = "prediction_loop" THEN "analyze_prediction_drift"
    ELSE simple_pc

\* C20: the calls that have returned are the first ones of main_calls, in
\* order, and main is in the next one unless it is over; it is over either
\* with every call returned and the report written, or with an exception,
\* at some call, and no report; the report is there only once both analyses
\* have returned.
C20_StagesInOrder ==
    /\ Len(simple_returned) <= Len(main_calls)
    /\ simple_returned = SubSeq(main_calls, 1, Len(simple_returned))
    /\ simple_pc \notin {"done", "raised"} =>
          CurrentCall = main_calls[Len(simple_returned) + 1]
    /\ simple_pc = "done" <=> simple_returned = main_calls
    /\ simple_pc = "done" <=> REPORT_PATH \in files
    /\ simple_pc = "raised" =>
          /\ simple_error # NoError
          /\ Len(simple_returned) < Len(main_calls)
          /\ REPORT_PATH \notin files
    /\ REPORT_PATH \in files =>
          {"analyze_data_drift", "analyze_prediction_drift"}
              \subseteq Range(simple_returned)

\* A run is over with its six calls returned, two models scored and the
\* report written.
C20_Witness ==
    /\ simple_pc = "done"
    /\ simple_returned = main_calls
    /\ Len(pred_results) = 2
    /\ report # <<>>
    /\ REPORT_PATH \in files

\* The report written lists the item `text` among its recommendations.
Recommends(text) ==
    \E i \in DOMAIN report[1].recommendations :
        report[1].recommendations[i] = text

\* C14 as stated: the report recommends that models be retrained only when
\* some model of its table has an RMSE change over 20% (a model gone from
\* 50.0 to 52.5 does not trigger it), and that features be investigated only
\* when some feature of its table has a mean change over 10%.
C14_RecommendationsKeyedOffResults ==
    report # <<>> =>
        /\ Recommends("Models with >20% RMSE degradation should be retrained")
              => \E i \in DOMAIN report[1].prediction_drift :
                    RGt(report[1].prediction_drift[i].rmse_change_pct, Rat(20))
        /\ Recommends("Features with >10% mean change should be investigated")
              => \E i \in DOMAIN report[1].data_drift :
                    RGt(report[1].data_drift[i].mean_change_pct, Rat(10))

\* ---------------------------------------------------------- API claims

PredictEndpoints == {"/predict_model1", "/predict_model2", "/predict_model3"}

\* The global a predict endpoint serves.
ModelOf(endpoint) ==
    CASE endpoint = "/predict_model1" -> model1
      [] endpoint = "/predict_model2" -> model2
      [] endpoint = "/predict_model3" -> model3

\* The responses sent by the predict endpoints.
PredictResponses ==
    {responses[i] : i \in {j \in DOMAIN responses :
                              responses[j].endpoint \in PredictEndpoints}}

\* C15: a predict endpoint whose model is not loaded answers 503 and calls
\* predict on nothing; it answers with a prediction only when its own model
\* is loaded, calling predict on that model alone, and with its own model
\* loaded it never answers 503, whatever the other two globals hold.
C15_PredictNeedsOwnModel ==
    \A r \in PredictResponses :
        /\ ModelOf(r.endpoint) = None => r.status = 503 /\ r.predict_on = <<>>
        /\ r.status = 200 =>
              /\ ModelOf(r.endpoint) # None
              /\ r.predict_on = <<ModelOf(r.endpoint)>>
        /\ ModelOf(r.endpoint) # None => r.status # 503

\* With model2 alone loaded, /predict_model1 has answered 503 and
\* /predict_model2 has answered with a prediction.
C15_Witness ==
    /\ model1 = None /\ model2 # None /\ model3 = None
    /\ \E r \in PredictResponses :
          r.endpoint = "/predict_model1" /\ r.status = 503
    /\ \E r \in PredictResponses :
          /\ r.endpoint = "/predict_model2"
          /\ r.status = 200
          /\ r.body.model_name = "GradientBoosting"

\* The globals, each with its name in /health, its name in /models and its
\* predict endpoint.
ApiModels ==
    {<<model1, "xgboost", "XGBoost", "/predict_model1">>,
     <<model2, "gradient_boosting", "GradientBoosting", "/predict_model2">>,
     <<model3, "random_forest", "RandomForest", "/predict_model3">>}

\* `names`, in order, without those of the globals that are None.
NamesOfLoaded(names) ==
    SelectSeq(names,
              LAMBDA n : \E m \in ApiModels : n \in {m[2], m[3]} /\ m[1] # None)

\* C16: in every state /health and /models list exactly the models whose
\* global is loaded, under the names of ApiModels and in their order, the
\* count of /models is the length of its list, every response sent by the
\* two endpoints is the one of the state, and a model is listed if and only
\* if its predict endpoint has never answered 503.
C16_ListingsMatchLoaded ==
    /\ HealthBody.models_loaded
           = NamesOfLoaded(<<"xgboost", "gradient_boosting", "random_forest">>)
    /\ ModelsBody.models
           = NamesOfLoaded(<<"XGBoost", "GradientBoosting", "RandomForest">>)
    /\ ModelsBody.count = Len(ModelsBody.models)
    /\ \A i \in DOMAIN responses :
          /\ responses[i].endpoint = "/health" =>
                responses[i].body = HealthBody
          /\ responses[i].endpoint = "/models" =>
                responses[i].body = ModelsBody
    /\ \A m \in ApiModels, r \in PredictResponses :
          r.endpoint = m[4] =>
              /\ r.status # 503 <=> m[2] \in Range(HealthBody.models_loaded)
              /\ r.status # 503 <=> m[3] \in Range(ModelsBody.models)

\* With model2 alone not loaded, /health has listed xgboost and
\* random_forest, /models has counted two models, and /predict_model2 has
\* answered 503.
C16_Witness ==
    /\ \E i \in DOMAIN responses :
          /\ responses[i].endpoint = "/health"
          /\ responses[i].body.models_loaded = <<"xgboost", "random_forest">>
    /\ \E i \in DOMAIN responses :
          /\ responses[i].endpoint = "/models"
          /\ responses[i].body.models = <<"XGBoost", "RandomForest">>
          /\ responses[i].body.count = 2
    /\ \E r \in PredictResponses :
          r.endpoint = "/predict_model2" /\ r.status = 503

\* Every one of the three registered models was asked for, in order.
AllAttempted(calls) ==
    [i \in DOMAIN calls |-> calls[i].name] = registry_names

\* C18: when drift_analysis.load_models has returned, and when the startup
\* handler of the API has run without setup_mlflow raising, all three models
\* have been asked for, whichever of the calls raised, and the dict, or the
\* three globals, hold exactly the models whose call returned; a call that
\* raises kills neither program.
C18_LoadIsolatedPerModel ==
    /\ "load_models" \in Range(simple_returned) =>
          /\ AllAttempted(load_calls)
          /\ \A k \in DOMAIN model_keys :
                model_keys[k] \in Range(models) <=> load_calls[k].ok
          /\ Len(models) = Cardinality(Range(models))
    /\ simple_pc = "raised" => simple_error.type # "Exception"
    /\ api_pc = "serving" /\ api_load_calls # <<>> =>
          /\ AllAttempted(api_load_calls)
          /\ model1 # None <=> api_load_calls[1].ok
          /\ model2 # None <=> api_load_calls[2].ok
          /\ model3 # None <=> api_load_calls[3].ok
    /\ api_pc = "serving" /\ api_load_calls = <<>> =>
          model1 = None /\ model2 = None /\ model3 = None

\* The registry failed on the second model for drift_analysis, whose dict
\* holds the first and the third, and on the first model for the API, whose
\* model2 and model3 are loaded.
C18_Witness ==
    /\ "load_models" \in Range(simple_returned)
    /\ ~load_calls[2].ok
    /\ models = <<"xgboost", "random_forest">>
    /\ api_pc = "serving"
    /\ AllAttempted(api_load_calls)
    /\ ~api_load_calls[1].ok
    /\ model1 = None /\ model2 # None /\ model3 # None

\* ------------------------------------------------- data-cleaning claims

Labels(rows) == {rows[i].index : i \in DOMAIN rows}

\* time_based_split has returned.
SplitReturned ==
    cleaning_pc \in {"create_drift_data", "save_splits",
                     "print_summary_statistics"}

\* No row of `earlier` is dated after a row of `later`.
NotAfter(earlier, later) ==
    \A r \in Range(earlier), q \in Range(later) : r.date <= q.date

\* C17: when time_based_split has returned on the n rows of df, with a the
\* integer part of 0.35 n and b that of 0.70 n, the training set is rows
\* [0, a), the validation set rows [a, b) and the test set rows [b, n) of df:
\* they share no row, every row of df is in exactly one of them, and no
\* training row is dated after a validation row, nor a validation row after
\* a test row.
C17_SplitIsOrderedPartition ==
    SplitReturned =>
        LET n == Len(cleaned_df)
            a == Len(train_df)
            b == a + Len(val_df)
        IN  /\ 100 * a <= 35 * n /\ 35 * n < 100 * (a + 1)
            /\ 100 * b <= 70 * n /\ 70 * n < 100 * (b + 1)
            /\ train_df \o val_df \o test_df = cleaned_df
            /\ Labels(train_df) \cap Labels(val_df) = {}
            /\ Labels(train_df) \cap Labels(test_df) = {}
            /\ Labels(val_df) \cap Labels(test_df) = {}
            /\ Cardinality(Labels(cleaned_df)) = n
            /\ NotAfter(train_df, val_df)
            /\ NotAfter(val_df, test_df)
            /\ NotAfter(train_df, test_df)

\* Five rows are split into one, two and two, the dates of the test set
\* being later than those of the training set.
C17_Witness ==
    /\ cleaning_pc = "create_drift_data"
    /\ Len(cleaned_df) = 5
    /\ Len(train_df) = 1 /\ Len(val_df) = 2 /\ Len(test_df) = 2
    /\ \A r \in Range(train_df), q \in Range(test_df) : r.date < q.date

\* ------------------------------------------- script-equivalence claims

\* perform_statistical_drift_analysis has returned its frame.
FallbackReturned == FallbackRan /\ nanny_pc # "raised"

\* C21 as stated: once both scripts have run their feature-drift computation
\* on the same two datasets, the fallback has compared the features
\* analyze_data_drift compares (the reference columns other than date, rv1,
\* rv2 and Appliances), and either both have raised or both have returned,
\* with the same records in the same order.
C21_ScriptsAgree ==
    SimpleRan /\ FallbackRan =>
        /\ feature_cols = Features(reference_df)
        /\ DataDriftReturned <=> FallbackReturned
        /\ DataDriftReturned => stat_df = drift_df

\* --------------------------------------------------- concurrency claims

\* The predict endpoints that have answered 503 in this state.
Refused == {r.endpoint : r \in {q \in PredictResponses : q.status = 503}}

\* The predict endpoints that have answered with another status.
Served == {r.endpoint : r \in {q \in PredictResponses : q.status # 503}}

\* C22: once the startup handler has finished, no step of a request handler
\* changes model1, model2 or model3, in whatever order the /health, /models
\* and /predict_model* requests are answered, and a predict endpoint that
\* has answered 503 once answers nothing else, before or after.
C22_ModelsFixedAfterStartup ==
    [][api_pc = "serving" =>
          /\ UNCHANGED <<model1, model2, model3>>
          /\ Refused' \cap Served' = {}]_vars

\* Three requests have been answered with model2 alone loaded:
\* /predict_model1 was refused twice, around a prediction of
\* /predict_model2.
C22_Witness ==
    /\ api_pc = "serving"
    /\ model1 = None /\ model2 # None
    /\ Len(responses) = 3
    /\ responses[1].endpoint = "/predict_model1" /\ responses[1].status = 503
    /\ responses[2].endpoint = "/predict_model2" /\ responses[2].status = 200
    /\ responses[3].endpoint = "/predict_model1" /\ responses[3].status = 503

\* ------------------------------------------------------ registry claims

\* The calls promote_to_production makes when it runs to its end.
promote_calls(version) ==
    <<LookupCall(<<"None">>), TransitionCall(version, "Production", TRUE),
      LookupCall(<<"Production">>)>>

\* The lookup of the versions in stage "None" has returned.
LookedUp ==
    \/ promote_pc \notin {"setup_mlflow", "get_latest_versions", "raised"}
    \/ promote_pc = "raised" /\ Len(registry_calls) > 1

\* C23: promote_to_production changes the registry only after a lookup of
\* stage "None" that returned a non-empty list; on an empty list it returns
\* having made that one call and no transition; otherwise its calls are, in
\* this order, the lookup, one transition of the first returned version to
\* Production with archive_existing_versions, and the lookup of stage
\* Production; and when it has run to its end that version alone is in
\* Production, the versions that were there are archived and the others are
\* as before.
C23_PromotesLatestOnce ==
    /\ registry # registry_before =>
          /\ LookedUp
          /\ latest_versions # <<>>
          /\ Len(registry_calls) >= 2
    /\ LookedUp /\ latest_versions = <<>> =>
          /\ promote_pc = "returned"
          /\ registry_calls = <<LookupCall(<<"None">>)>>
          /\ registry = registry_before
    /\ LookedUp /\ latest_versions # <<>> =>
          /\ latest_versions[1] = Latest(VersionsIn(registry_before, "None"))
          /\ registry_calls
                = SubSeq(promote_calls(latest_versions[1]), 1,
                         Len(registry_calls))
    /\ ~LookedUp => registry_calls \in {<<>>, <<LookupCall(<<"None">>)>>}
    /\ promote_pc = "returned" /\ latest_versions # <<>> =>
          /\ registry_calls = promote_calls(latest_versions[1])
          /\ VersionsIn(registry, "Production") = {latest_versions[1]}
          /\ prod_versions = <<latest_versions[1]>>
          /\ \A v \in DOMAIN registry \ {latest_versions[1]} :
                registry[v] = IF registry_before[v] = "Production"
                              THEN "Archived" ELSE registry_before[v]

\* A run to the end on a registry with versions 1 and 2 in Production and
\* version 3 in stage None: version 3 is promoted and the other two are
\* archived.
C23_Witness ==
    /\ promote_pc = "returned"
    /\ registry_before = <<"Production", "Production", "None">>
    /\ registry = <<"Archived", "Archived", "Production">>
    /\ promote_out = "[OK] CHAMPION MODEL PROMOTED TO PRODUCTION"

\* ---------------------------------------------- production-data claims

\* `tail` is made of the last rows of `rows`.
IsSuffix(tail, rows) ==
    /\ Len(tail) <= Len(rows)
    /\ tail = SubSeq(rows, Len(rows) - Len(tail) + 1, Len(rows))

\* C24: when create_drift_data has returned on the n rows of the frame that
\* time_based_split has split, with c the integer part of 0.80 n, its frame
\* is rows [c, n) of that frame, which are the last rows of the test split,
\* so each of its rows is a row of the test split; and the file save_splits
\* writes as data/drift/production_data.csv holds the last lines of the one
\* it writes as data/cleaned/test.csv, the two files load_data of
\* drift_analysis reads.
C24_ProductionWithinTest ==
    /\ cleaning_pc \in {"save_splits", "print_summary_statistics"} =>
          LET n == Len(cleaned_df)
              c == n - Len(production_sim_df)
          IN  /\ 100 * c <= 80 * n /\ 80 * n < 100 * (c + 1)
              /\ production_sim_df = SubSeq(cleaned_df, c + 1, n)
              /\ IsSuffix(production_sim_df, test_df)
              /\ Labels(production_sim_df) \subseteq Labels(test_df)
    /\ cleaning_pc = "print_summary_statistics" =>
          /\ PROD_PATH \in DOMAIN saved /\ TEST_PATH \in DOMAIN saved
          /\ IsSuffix(saved[PROD_PATH], saved[TEST_PATH])
          /\ saved[PROD_PATH] = ToCsv(production_sim_df)

\* Of five cleaned rows the last two are the test split and the last one is
\* the production-simulation data, and both files are written.
C24_Witness ==
    /\ cleaning_pc = "print_summary_statistics"
    /\ Len(cleaned_df) = 5
    /\ Len(saved[TEST_PATH]) = 2
    /\ Len(saved[PROD_PATH]) = 1
    /\ saved[PROD_PATH][1] = saved[TEST_PATH][2]

\* ----------------------------------------------------- selection claims

\* The positions, from 0, of the leaderboard rows of type t.
RowsOfType(t) == {r \in 0..(Len(lb_df) - 1) : ModelType(lb_df[r + 1]) = t}

\* The position of the best-ranked row of type t.
BestRow(t) == CHOOSE r \in RowsOfType(t) : \A q \in RowsOfType(t) : r <= q

\* C25: at every step of the selection loop and after it, the rows read are
\* rows 0, 1, ... in this order, at most 10 of them; model_types has at most
\* 3 entries, no entry twice and not StackedEnsemble; it holds exactly the
\* types other than StackedEnsemble of the rows read, in the order of the
\* best-ranked row of each; and the loop is over as soon as there are 3
\* entries, the last row read being the one that gave the third, and
\* otherwise only when the first 10 rows, or all rows, have been read.
C25_TopThreeModelTypes ==
    /\ examined = [j \in 1..automl_i |-> j - 1]
    /\ automl_i <= head_rows /\ automl_i <= Len(lb_df)
    /\ Len(model_types) <= top_types
    /\ Cardinality(Range(model_types)) = Len(model_types)
    /\ "StackedEnsemble" \notin Range(model_types)
    /\ Range(model_types)
          = {ModelType(lb_df[r + 1]) : r \in Range(examined)}
                \ {"StackedEnsemble"}
    /\ \A j, k \in DOMAIN model_types :
          j < k => BestRow(model_types[j]) < BestRow(model_types[k])
    /\ Len(model_types) = top_types =>
          /\ automl_pc = "save"
          /\ BestRow(model_types[top_types]) = automl_i - 1
    /\ automl_pc = "save" /\ Len(model_types) < top_types =>
          automl_i = head_rows \/ automl_i = Len(lb_df)

\* A leaderboard of twelve rows of four types: nine StackedEnsemble rows,
\* then GBM, XGBoost and DRF.  Ten rows are read and the loop ends with GBM
\* alone selected.
C25_Witness ==
    /\ automl_pc = "save"
    /\ Len(lb_df) = 12
    /\ automl_i = 10
    /\ ModelType(lb_df[11]) = "XGBoost"
    /\ ModelType(lb_df[12]) = "DRF (Distributed Random Forest)"
    /\ model_types = <<"GBM (Gradient Boosting Machine)">>

\* ---------------------------------------------------- preparation claims

\* The identifiers of the rows of df.
Identifiers(df) == {df.rows[i]["identifier"] : i \in DOMAIN df.rows}

\* C26: a call of prepare_data_for_nannyml leaves the two datasets it is
\* given as they were; when it returns, the combined dataset has the n
\* reference rows followed by the m production rows and no other, the
\* reference rows carry the identifiers 0..n-1 and the partition
\* 'reference', the production rows n..n+m-1 and 'analysis', and no two rows
\* share an identifier.
C26_CombinedRowsIdentified ==
    [][PrepareDataForNannyml =>
          /\ reference_df' = reference_df
          /\ production_df' = production_df
          /\ nanny_pc' # "raised" =>
                LET n == Len(reference_df.rows)
                    m == Len(production_df.rows)
                    rows == combined_df'.rows
                IN  /\ Len(rows) = n + m
                    /\ \A i \in 1..n :
                          /\ rows[i]["identifier"] = i - 1
                          /\ rows[i]["partition"] = "reference"
                    /\ \A i \in (n + 1)..(n + m) :
                          /\ rows[i]["identifier"] = i - 1
                          /\ rows[i]["partition"] = "analysis"
                    /\ Cardinality(Identifiers(combined_df')) = n + m]_vars

\* Two reference rows and two production rows have been combined: the
\* identifiers are 0, 1, 2, 3, the last two rows being the analysis
\* partition, while the datasets given still have their five columns.
C26_Witness ==
    /\ nanny_pc = "analyze_with_nannyml"
    /\ Len(reference_df.rows) = 2 /\ Len(production_df.rows) = 2
    /\ Identifiers(combined_df) = 0..3
    /\ Len(Partition(combined_df, "analysis").rows) = 2
    /\ combined_df.rows[3]["identifier"] = 2
    /\ reference_df.columns = CsvColumns
    /\ production_df.columns = CsvColumns

============================================================================
